---------------------------- MODULE Spec2Model ----------------------------
(***************************************************************************)
(* A model of the kdlc compiler front end (DirectXMan12/idl):              *)
(*   - modifier lowering and name resolution (passes/fromast),             *)
(*   - IR lowering (passes/toir),                                          *)
(*   - the loader (loader.Config.Load / loader.Load),                      *)
(*   - the cross-file type graph and its checks (passes/typecheck).        *)
(*                                                                         *)
(* Go values are modelled as records.  A nil pointer / nil interface is    *)
(* the record Nil.  Go maps are functions with a finite domain.  A         *)
(* fully qualified name "A::B" is the sequence of its segments <<"A","B">>.*)
(* Diagnostics (trace.ErrorAt) are collected in a bag: the order in which  *)
(* map iteration emits them is not part of the model.                      *)
(***************************************************************************)
EXTENDS Integers, Sequences, FiniteSets, Bags, TLC

(***************************************************************************)
(* Basic values.                                                           *)
(***************************************************************************)
Nil == [nil |-> TRUE]

EmptyMap == [x \in {} |-> Nil]

\* m with m[k] = v  (Go: m[k] = v)
MapPut(m, k, v) == [x \in (DOMAIN m) \cup {k} |-> IF x = k THEN v ELSE m[x]]

\* the elements of a sequence
Range(s) == {s[i] : i \in DOMAIN s}

RECURSIVE SumBags(_)
\* the bag union of a sequence of bags
SumBags(s) == IF s = <<>> THEN EmptyBag ELSE Head(s) (+) SumBags(Tail(s))

RECURSIVE FlatSeq(_)
\* the concatenation of a sequence of sequences
FlatSeq(s) == IF s = <<>> THEN <<>> ELSE Head(s) \o FlatSeq(Tail(s))

\* trace.ErrorAt(ctx, msg), with the notes the context carries at that point
Err(msg, note) == SetToBag({[msg |-> msg, note |-> note]})

NoErr == EmptyBag

\* trace.HadError, on the diagnostics recorded so far
HadError(d) == d # EmptyBag

\* how many diagnostics of bag b carry message msg
BagCount(b, msg) ==
    LET S == {d \in BagToSet(b) : d.msg = msg}
        RECURSIVE Sum(_)
        Sum(T) == IF T = {} THEN 0
                  ELSE LET d == CHOOSE e \in T : TRUE IN CopiesIn(d, b) + Sum(T \ {d})
    IN Sum(S)

(***************************************************************************)
(* typecheck: names.                                                       *)
(***************************************************************************)
GroupVersion(group, version) == [Group |-> group, Version |-> version]

\* GroupVersion.WithName
WithName(gv, name) == [GroupVersion |-> gv, FullName |-> name]

\* GVFromRef
GVFromRef(gv) == GroupVersion(gv.Group, gv.Version)

\* GVFromDesc
GVFromDesc(desc) == GroupVersion(desc.Group, desc.Version)

\* NameFromRef
NameFromRef(ref) == WithName(GVFromRef(ref.GroupVersion), ref.Name)

(***************************************************************************)
(* trace: the ambient context is the record of its notes.                  *)
(***************************************************************************)
Background == [at |-> "compile"]

\* trace.Note(ctx, key, value)
Note(ctx, key, value) == (key :> value) @@ ctx

(***************************************************************************)
(* CKDL IR (ckdl-ir/goir/types), as the Go code builds and reads it.       *)
(* A oneof is [oneof |-> <case>, val |-> <payload>], unset is Nil.         *)
(***************************************************************************)
OneOf(case, val) == [oneof |-> case, val |-> val]

\* whether oneof value x is set to the given case (Go: x.(*T) type assertion)
Is(x, case) == x # Nil /\ x.oneof = case

IRReference(gv, name) == [GroupVersion |-> gv, Name |-> name, Constraints |-> Nil]

IRPrimitive(type) == [Type |-> type, SpecificConstraints |-> Nil]

IRList(items) == [Items |-> items, ListConstraints |-> Nil]

IRSet(items) == [Items |-> items, ListConstraints |-> Nil]

IRListMap(items, keys) == [Items |-> items, KeyField |-> keys, ListConstraints |-> Nil]

IRPrimitiveMap(key, value) == [Key |-> key, Value |-> value, ObjectConstraints |-> Nil]

IRField(name, optional, type) ==
    [Name |-> name, Optional |-> optional, Embedded |-> (name = ""), Type |-> type]

IRKind(name, fields) == [Name |-> name, Fields |-> fields]

IRSubtype(name, type) == [Name |-> name, Type |-> type]

IRStruct(fields) == [Fields |-> fields]

IRUnion(tag, untagged, variants) == [Tag |-> tag, Untagged |-> untagged, Variants |-> variants]

IREnum(variants) == [Variants |-> variants]

IRGroupVersion(group, version, kinds, types) ==
    [Description |-> [Group |-> group, Version |-> version], Kinds |-> kinds, Types |-> types]

IRDependency(gv, from) == [GroupVersion |-> gv, From |-> from]

IRPartial(deps, gvs) == [Dependencies |-> deps, GroupVersions |-> gvs]

\* &ire.Partial{}
EmptyPartial == IRPartial(<<>>, <<>>)

(***************************************************************************)
(* typecheck: terminals and the per-file / per-group-version maps.         *)
(***************************************************************************)
Terminal(class, body) == [class |-> class, body |-> body]

\* the References and Terminals maps of a fresh Node
EmptyMaps == [References |-> EmptyMap, Terminals |-> EmptyMap]

AlreadyExists == "type with this name already exists"

\* AddTerminal that reports a name that is taken and keeps what was there
AddTerminalUnlessTaken(ctx, m, from, term) ==
    LET taken == from \in DOMAIN m.References \/ from \in DOMAIN m.Terminals
    IN [maps |-> IF taken THEN m ELSE [m EXCEPT !.Terminals = MapPut(@, from, term)],
        errs |-> IF taken THEN Err(AlreadyExists, ctx) ELSE NoErr]

\* Node.AddTerminal and MergedNode.AddTerminal: the maps after, and the errors
AddTerminal(ctx, m, from, term) ==
    LET refExists == from \in DOMAIN m.References
        ctx2 == IF refExists THEN Note(ctx, "originally to", m.References[from]) ELSE ctx
    IN [maps |-> [m EXCEPT !.Terminals = MapPut(@, from, term)],
        errs |-> (IF refExists THEN Err(AlreadyExists, ctx2) ELSE NoErr)
                 (+) (IF from \in DOMAIN m.Terminals THEN Err(AlreadyExists, ctx2) ELSE NoErr)]

\* AddReference that looks for an earlier alias of the name only, not for an
\* earlier terminal
AddReferenceOverTerminal(ctx, m, from, to) ==
    LET refExists == from \in DOMAIN m.References
    IN [maps |-> [m EXCEPT !.References = MapPut(@, from, to)],
        errs |-> IF refExists
                 THEN Err(AlreadyExists, Note(ctx, "originally to", m.References[from]))
                 ELSE NoErr]

\* Node.AddReference and MergedNode.AddReference
AddReference(ctx, m, from, to) ==
    LET refExists == from \in DOMAIN m.References
        ctx2 == IF refExists THEN Note(ctx, "originally to", m.References[from]) ELSE ctx
    IN [maps |-> [m EXCEPT !.References = MapPut(@, from, to)],
        errs |-> (IF refExists THEN Err(AlreadyExists, ctx2) ELSE NoErr)
                 (+) (IF from \in DOMAIN m.Terminals THEN Err(AlreadyExists, ctx2) ELSE NoErr)]

\* one name a partial declares: an alias (to # Nil) or a terminal (term # Nil)
Decl(from, to, term) == [from |-> from, to |-> to, term |-> term]

RECURSIVE AddAll(_, _, _)
\* AddReference / AddTerminal for each declaration of the sequence, in order
AddAll(ctx, m, decls) ==
    IF decls = <<>> THEN [maps |-> m, errs |-> NoErr]
    ELSE LET d == Head(decls)
             r == IF d.to # Nil THEN AddReference(ctx, m, d.from, d.to)
                  ELSE AddTerminal(ctx, m, d.from, d.term)
             rest == AddAll(ctx, r.maps, Tail(decls))
         IN [maps |-> rest.maps, errs |-> r.errs (+) rest.errs]

\* the switch of buildNode on subtype.Type; Nil stands for the panicking default
SubtypeDecl(gv, subtype) ==
    LET stName == WithName(gv, subtype.Name)
        body == subtype.Type
    IN IF body = Nil THEN Nil
       ELSE CASE body.oneof = "ReferenceAlias" -> Decl(stName, NameFromRef(body.val), Nil)
              [] body.oneof = "Union" -> Decl(stName, Nil, Terminal("Union", body.val))
              [] body.oneof = "Struct" -> Decl(stName, Nil, Terminal("Struct", body.val))
              [] body.oneof = "Enum" -> Decl(stName, Nil, Terminal("Enum", body.val))
              [] body.oneof \in {"PrimitiveAlias", "Set", "List", "PrimitiveMap", "ListMap"} ->
                    Decl(stName, Nil, Terminal("Wrapper", subtype))

\* the declarations buildNode records for one group-version: kinds, then subtypes
DeclsOfGV(irGV) ==
    LET gv == GVFromDesc(irGV.Description)
    IN [i \in 1..Len(irGV.Kinds) |->
            Decl(WithName(gv, irGV.Kinds[i].Name), Nil, Terminal("Kind", irGV.Kinds[i]))]
       \o [i \in 1..Len(irGV.Types) |-> SubtypeDecl(gv, irGV.Types[i])]

\* Graph.buildNode: the maps of the new node, the errors, whether it panics
buildNode(ctx, path, partial) ==
    LET decls == FlatSeq([i \in 1..Len(partial.GroupVersions) |->
                             DeclsOfGV(partial.GroupVersions[i])])
        bad == {i \in 1..Len(decls) : decls[i] = Nil}
        upTo == IF bad = {} THEN decls
                ELSE SubSeq(decls, 1, (CHOOSE i \in bad : \A j \in bad : i <= j) - 1)
        r == AddAll(ctx, EmptyMaps, upTo)
    IN [maps |-> r.maps, errs |-> r.errs, panics |-> bad # {}]

\* where the maps of a Node / of a MergedNode that owns its maps live
NodeMaps(path) == [node |-> path]

MergedMaps(gv) == [merged |-> gv]

\* &Node{...}: the maps are held by reference
Node(path, partial) == [Path |-> path, Partial |-> partial, maps |-> NodeMaps(path)]

MergedNode(sources, maps) == [Sources |-> sources, maps |-> maps]

RECURSIVE SetToSeq(_)
\* the elements of a set in some order; used only where the order cannot matter
SetToSeq(S) ==
    IF S = {} THEN <<>>
    ELSE LET x == CHOOSE y \in S : TRUE IN <<x>> \o SetToSeq(S \ {x})

\* the contents of a node's maps as declarations: its references, then its
\* terminals (keys of one map are distinct, so the order within a map cannot
\* change what AddReference / AddTerminal report or leave behind)
DeclsOfMaps(m) ==
    LET refs == SetToSeq(DOMAIN m.References)
        terms == SetToSeq(DOMAIN m.Terminals)
    IN [i \in 1..Len(refs) |-> Decl(refs[i], m.References[refs[i]], Nil)]
       \o [i \in 1..Len(terms) |-> Decl(terms[i], Nil, m.Terminals[terms[i]])]

\* MergeNodes' inner loop without the copy made for the second source: the
\* entries are added to whatever maps the merged node holds
MergeGVInPlace(ctx, st, node, irGV) ==
    LET gv == GVFromDesc(irGV.Description)
    IN IF gv \notin DOMAIN st.G
       THEN [st EXCEPT !.G = MapPut(@, gv, MergedNode(<<node.Path>>, node.maps))]
       ELSE LET merged == st.G[gv]
                r == AddAll(ctx, st.H[merged.maps], DeclsOfMaps(st.H[node.maps]))
            IN [G |-> MapPut(st.G, gv, MergedNode(Append(merged.Sources, node.Path), merged.maps)),
                H |-> MapPut(st.H, merged.maps, r.maps),
                errs |-> st.errs (+) r.errs]

\* the body of MergeNodes' inner loop for one group-version block of node:
\* st is [G |-> GVToNode, H |-> heap, errs |-> bag]
MergeGV(ctx, st, node, irGV) ==
    LET gv == GVFromDesc(irGV.Description)
    IN IF gv \notin DOMAIN st.G
       THEN \* share the node's maps
            [st EXCEPT !.G = MapPut(@, gv, MergedNode(<<node.Path>>, node.maps))]
       ELSE LET merged == st.G[gv]
                copies == Len(merged.Sources) = 1
                mapsId == IF copies THEN MergedMaps(gv) ELSE merged.maps
                H1 == IF copies THEN MapPut(st.H, mapsId, st.H[merged.maps]) ELSE st.H
                r == AddAll(ctx, H1[mapsId], DeclsOfMaps(H1[node.maps]))
            IN [G |-> MapPut(st.G, gv, MergedNode(Append(merged.Sources, node.Path), mapsId)),
                H |-> MapPut(H1, mapsId, r.maps),
                errs |-> st.errs (+) r.errs]

RECURSIVE MergeNode(_, _, _, _)
\* MergeNodes' outer-loop body: every group-version block of node, in order
MergeNode(ctx, st, node, gvs) ==
    IF gvs = <<>> THEN st
    ELSE MergeNode(ctx, MergeGV(ctx, st, node, Head(gvs)), node, Tail(gvs))

RECURSIVE FollowRefs(_, _, _)
\* the loop of TerminalFor: follow References from dest until a name that is
\* not a key; loops is TRUE when a name comes back, and the Go loop never ends
FollowRefs(refs, dest, seen) ==
    IF dest \notin DOMAIN refs THEN [dest |-> dest, loops |-> FALSE]
    ELSE IF dest \in seen THEN [dest |-> dest, loops |-> TRUE]
    ELSE FollowRefs(refs, refs[dest], seen \cup {dest})

UnknownGV == "reference to unkown group-version"

UnknownType == "reference to unknown type"

\* Graph.TerminalFor over GVToNode G and heap H
TerminalFor(G, H, ctx0, name) ==
    LET ctx == Note(ctx0, "original", name)
    IN IF name.GroupVersion \notin DOMAIN G
       THEN [term |-> Nil, errs |-> Err(UnknownGV, ctx), loops |-> FALSE]
       ELSE LET node == H[G[name.GroupVersion].maps]
                f == FollowRefs(node.References, name, {})
                ctx2 == IF f.dest = name THEN ctx ELSE Note(ctx, "via", f.dest)
            IN IF f.loops THEN [term |-> Nil, errs |-> NoErr, loops |-> TRUE]
               ELSE IF f.dest \notin DOMAIN node.Terminals
               THEN [term |-> Nil, errs |-> Err(UnknownType, ctx2), loops |-> FALSE]
               ELSE [term |-> node.Terminals[f.dest], errs |-> NoErr, loops |-> FALSE]

KeyNotPresent == "key of list-map not present in item"

MustBeStructs == "list-map items must be structs"

\* checkListMap that stops looking after the first key
checkListMapFirstKey(G, H, ctx, listMap) ==
    LET t == TerminalFor(G, H, ctx, NameFromRef(listMap.Items))
        item == t.term
    IN IF t.loops THEN t
       ELSE IF item # Nil /\ item.class = "Struct"
       THEN LET fields == item.body.Fields
                missing(key) == \A j \in 1..Len(fields) : fields[j].Name # key
            IN [t EXCEPT !.errs = @ (+) (IF listMap.KeyField # <<>> /\ missing(listMap.KeyField[1])
                                           THEN Err(KeyNotPresent, Note(ctx, "name", listMap.KeyField[1]))
                                           ELSE NoErr)]
       ELSE [t EXCEPT !.errs = @ (+) Err(MustBeStructs, ctx)]

\* checkListMap
checkListMap(G, H, ctx, listMap) ==
    LET t == TerminalFor(G, H, ctx, NameFromRef(listMap.Items))
        item == t.term
    IN IF t.loops THEN t
       ELSE IF item # Nil /\ item.class = "Struct"
       THEN LET fields == item.body.Fields
                missing(key) == \A j \in 1..Len(fields) : fields[j].Name # key
            IN [t EXCEPT !.errs = @ (+) SumBags([i \in 1..Len(listMap.KeyField) |->
                        IF missing(listMap.KeyField[i])
                        THEN Err(KeyNotPresent, Note(ctx, "name", listMap.KeyField[i]))
                        ELSE NoErr])]
       ELSE [t EXCEPT !.errs = @ (+) Err(MustBeStructs, ctx)]

NoCheck == [term |-> Nil, errs |-> NoErr, loops |-> FALSE]

\* CheckFieldType
CheckFieldType(G, H, ctx, field) ==
    IF Is(field.Type, "ListMap") THEN checkListMap(G, H, ctx, field.Type.val) ELSE NoCheck

\* CheckWrapperType
CheckWrapperType(G, H, ctx, subtype) ==
    IF Is(subtype.Type, "ListMap") THEN checkListMap(G, H, ctx, subtype.Type.val) ELSE NoCheck

(***************************************************************************)
(* typecheck: the traversals of graph.go.  A check yields                  *)
(* [errs, loops, panics]: the diagnostics, whether TerminalFor's loop      *)
(* never ends, whether the code panics.                                    *)
(***************************************************************************)
Checked(errs, loops, panics) == [errs |-> errs, loops |-> loops, panics |-> panics]

Panics == Checked(NoErr, FALSE, TRUE)

\* the check results of a sequence of checks, taken together
AllChecked(rs) ==
    Checked(SumBags([i \in 1..Len(rs) |-> rs[i].errs]),
            \E i \in 1..Len(rs) : rs[i].loops,
            \E i \in 1..Len(rs) : rs[i].panics)

\* typecheck.CheckReferences (the RefCheck): NameFromRef dereferences ref and
\* ref.GroupVersion
CheckReference(G, H, ctx, ref) ==
    IF ref = Nil \/ ref.GroupVersion = Nil THEN Panics
    ELSE LET t == TerminalFor(G, H, ctx, NameFromRef(ref))
         IN Checked(t.errs, t.loops, FALSE)

\* the references Graph.CheckReferences hands to check for one field type or
\* one subtype body; <<Nil>> stands for the panicking default case
RefsChecked(typ) ==
    IF typ = Nil THEN <<Nil>>
    ELSE CASE typ.oneof \in {"NamedType", "ReferenceAlias"} -> <<[ref |-> typ.val]>>
           [] typ.oneof \in {"Set", "List"} ->
                IF Is(typ.val.Items, "Reference") THEN <<[ref |-> typ.val.Items.val]>> ELSE <<>>
           [] typ.oneof = "PrimitiveMap" ->
                (IF Is(typ.val.Key, "ReferenceKey") THEN <<[ref |-> typ.val.Key.val]>> ELSE <<>>)
                \o (IF Is(typ.val.Value, "ReferenceValue")
                      THEN <<[ref |-> typ.val.Value.val]>> ELSE <<>>)
           [] typ.oneof = "ListMap" -> <<[ref |-> typ.val.Items]>>
           [] OTHER -> <<>>

\* the fields Graph.CheckFields visits in one group-version block
FieldsOfGV(irGV) ==
    FlatSeq([i \in 1..Len(irGV.Kinds) |-> irGV.Kinds[i].Fields])
    \o FlatSeq([i \in 1..Len(irGV.Types) |->
            LET typ == irGV.Types[i].Type
            IN IF Is(typ, "Struct") THEN typ.val.Fields
               ELSE IF Is(typ, "Union") THEN typ.val.Variants
               ELSE <<>>])

\* all fields / all subtypes of a partial, as CheckFields / CheckSubtypes see them
FieldsOf(partial) ==
    FlatSeq([i \in 1..Len(partial.GroupVersions) |-> FieldsOfGV(partial.GroupVersions[i])])

SubtypesOf(partial) ==
    FlatSeq([i \in 1..Len(partial.GroupVersions) |-> partial.GroupVersions[i].Types])

\* the partials of all graph nodes (for _, node := range g.PathToNode); a nil
\* node makes node.Partial panic
NodePartials(N) ==
    LET paths == SetToSeq(DOMAIN N)
    IN [i \in 1..Len(paths) |-> IF N[paths[i]] = Nil THEN Nil ELSE N[paths[i]].Partial]

\* Graph.CheckFields(check) where check(field) is the result of the FieldCheck
GraphCheckFields(N, check(_)) ==
    LET ps == NodePartials(N)
    IN AllChecked(FlatSeq([i \in 1..Len(ps) |->
            IF ps[i] = Nil THEN <<Panics>>
            ELSE LET fs == FieldsOf(ps[i]) IN [j \in 1..Len(fs) |-> check(fs[j])]]))

\* Graph.CheckSubtypes(check)
GraphCheckSubtypes(N, check(_)) ==
    LET ps == NodePartials(N)
    IN AllChecked(FlatSeq([i \in 1..Len(ps) |->
            IF ps[i] = Nil THEN <<Panics>>
            ELSE LET sts == SubtypesOf(ps[i]) IN [j \in 1..Len(sts) |-> check(sts[j])]]))

\* the checks of one field type / subtype body in Graph.CheckReferences
RefsCheckedAll(G, H, ctx, typ) ==
    LET refs == RefsChecked(typ)
    IN AllChecked([i \in 1..Len(refs) |->
            IF refs[i] = Nil THEN Panics ELSE CheckReference(G, H, ctx, refs[i].ref)])

\* Graph.CheckReferences(typecheck.CheckReferences): fields first, then wrappers
GraphCheckReferences(N, G, H, ctx) ==
    LET OfField(field) == RefsCheckedAll(G, H, ctx, field.Type)
        OfSubtype(st) == IF Is(st.Type, "Union") \/ Is(st.Type, "Struct")
                         THEN Checked(NoErr, FALSE, FALSE)
                         ELSE RefsCheckedAll(G, H, ctx, st.Type)
    IN AllChecked(<<GraphCheckFields(N, OfField), GraphCheckSubtypes(N, OfSubtype)>>)

(***************************************************************************)
(* parser/ast: the syntax tree the parser hands to the passes.  A type     *)
(* name is the sequence of its "::"-separated segments; keys, field names  *)
(* and group/version strings are plain strings.                            *)
(***************************************************************************)
KeyValue(key, value) == [Key |-> key, Value |-> value]

ParameterList(params) == [Params |-> params]

\* a key, possibly with a parameter list: `optional`, `list(value: string)`
KeyishModifier(key, parameters) == [mod |-> "Keyish", Key |-> key, Parameters |-> parameters]

\* a type identifier or path: `Pod`, `Pod::Spec`, `core/v1::Pod`
RefModifier(gv, name) == [mod |-> "Ref", GroupVersion |-> gv, Name |-> name]

NumVal(n) == [val |-> "Num", num |-> n]

BoolVal(b) == [val |-> "Bool", bool |-> b]

StringVal(str) == [val |-> "String", str |-> str]

ListVal(values) == [val |-> "List", Values |-> values]

FieldPathVal(name) == [val |-> "FieldPath", field |-> name]

PrimitiveTypeVal(key) == [val |-> "PrimitiveType", prim |-> key]

RefTypeVal(ref) == [val |-> "RefType", ref |-> ref]

CompoundTypeVal(mod) == [val |-> "CompoundType", compound |-> mod]

\* whether value v is of the given Go type (v.(T))
IsVal(v, type) == v # Nil /\ v.val = type

ASTField(name, modifiers) == [Name |-> name, Modifiers |-> modifiers, Embedded |-> (name = "")]

Newtype(modifiers) == [body |-> "Newtype", Modifiers |-> modifiers]

Struct(fields, subtypes) == [body |-> "Struct", Fields |-> fields, Subtypes |-> subtypes]

Union(tag, untagged, variants, subtypes) ==
    [body |-> "Union", Tag |-> tag, Untagged |-> untagged, Variants |-> variants,
     Subtypes |-> subtypes]

Enum(variants) == [body |-> "Enum", EnumVariants |-> variants]

ASTSubtypeDecl(name, body) == [decl |-> "Subtype", Name |-> name, Body |-> body]

ASTKindDecl(name, fields, subtypes) ==
    [decl |-> "Kind", Name |-> name, Fields |-> fields, Subtypes |-> subtypes]

ASTGroupVersion(group, version, decls) == [Group |-> group, Version |-> version, Decls |-> decls]

\* Imports.Types.Imports is a Go map keyed by group-version: a set here
TypeImport(gv, src) == [GroupVersion |-> gv, Src |-> src]

ASTFile(imports, gvs) == [Imports |-> imports, GroupVersions |-> gvs]

(***************************************************************************)
(* Modifier lowering (modifiersToKnown and what it calls).  Every step     *)
(* yields R(val, errs, panics).                                            *)
(***************************************************************************)
PrimitiveTypes ==
    {"string", "int32", "int64", "quantity", "time", "duration", "bytes", "bool",
     "dangerous-float64", "int-or-string"}

\* keyToPrimitive: Nil for a key that names no primitive
keyToPrimitive(key) ==
    CASE key = "string" -> [prim |-> "STRING"]
      [] key = "int32" -> [prim |-> "LEGACYINT32"]
      [] key = "int64" -> [prim |-> "INT64"]
      [] key = "quantity" -> [prim |-> "QUANTITY"]
      [] key = "time" -> [prim |-> "TIME"]
      [] key = "duration" -> [prim |-> "DURATION"]
      [] key = "bytes" -> [prim |-> "BYTES"]
      [] key = "bool" -> [prim |-> "BOOL"]
      [] key = "dangerous-float64" -> [prim |-> "LEGACYFLOAT64"]
      [] key = "int-or-string" -> [prim |-> "INTORSTRING"]
      [] OTHER -> Nil

\* ast.ResolvedTypeInfo{}
EmptyTypeInfo ==
    [Type |-> Nil, TypeSrc |-> Nil, Optional |-> FALSE, Default |-> Nil,
     CreateOnly |-> FALSE, Validates |-> Nil]

\* ast.ValidatesInfo{}
EmptyValidates == [Number |-> Nil, String |-> Nil, List |-> Nil, Objectish |-> Nil]

\* irc.Numeric{}, irc.String{}, irc.List{}, irc.Object{}
EmptyNumeric ==
    [Maximum |-> 0, Minimum |-> 0, ExclusiveMaximum |-> FALSE, ExclusiveMinimum |-> FALSE,
     MultipleOf |-> 0]

EmptyString == [MaxLength |-> 0, MinLength |-> 0, Pattern |-> ""]

EmptyList == [MaxItems |-> 0, MinItems |-> 0, UniqueItems |-> FALSE]

EmptyObject == [MaxProperties |-> 0, MinProperties |-> 0]

(***************************************************************************)
(* A step that computes a value, records diagnostics and may panic yields  *)
(* the record R(val, errs, panics).                                        *)
(***************************************************************************)
R(val, errs, panics) == [val |-> val, errs |-> errs, panics |-> panics]

\* the step returned val and recorded nothing
Ok(val) == R(val, NoErr, FALSE)

\* the step returned val after recording errs
Failed(val, errs) == R(val, errs, FALSE)

\* the step panicked
Panic == R(Nil, NoErr, TRUE)

\* the outcome k of a step that ran after errs had been recorded
After(errs, k) == [k EXCEPT !.errs = errs (+) @]

\* step r, then step K on r's value; a panic of r ends the sequence
Then(r, K(_)) == IF r.panics THEN r ELSE After(r.errs, K(r.val))

\* the steps rs, one per element of a sequence: their values, all their
\* diagnostics, and whether one of them panicked
Collect(rs) ==
    R([i \in DOMAIN rs |-> rs[i].val], SumBags([i \in DOMAIN rs |-> rs[i].errs]),
      \E i \in DOMAIN rs : rs[i].panics)

\* assertNumber
assertNumber(ctx, v) ==
    IF IsVal(v, "Num") THEN Ok(v.num) ELSE Failed(0, Err("expected number", ctx))

\* assertUNumber (the model's numerals are small and the conversion to uint
\* is only faithful for values >= 0)
assertUNumber(ctx, v) ==
    IF ~IsVal(v, "Num") THEN Failed(0, Err("expected number >= 0", ctx))
    ELSE IF v.num < 0 THEN Failed(v.num, Err("expected number >= 0", ctx))
    ELSE Ok(v.num)

\* assertBool
assertBool(ctx, v) ==
    IF IsVal(v, "Bool") THEN Ok(v.bool) ELSE Failed(FALSE, Err("expected boolean", ctx))

\* assertString
assertString(ctx, v) ==
    IF IsVal(v, "String") THEN Ok(v.str) ELSE Failed("", Err("expected string", ctx))

RECURSIVE SetParams(_, _, _)
\* the loop of validParameters over params.Params: r.val is the map so far
SetParams(ctx, r, params) ==
    IF params = <<>> THEN r
    ELSE SetParams(ctx,
             Then(r, LAMBDA present :
                 IF Head(params).Key \in DOMAIN present
                 THEN Failed([present EXCEPT ![Head(params).Key] = Head(params)],
                             IF present[Head(params).Key] # Nil
                             THEN Err("cannot set the same parameter twice",
                                      Note(ctx, "name", Head(params).Key))
                             ELSE NoErr)
                 ELSE Failed(present, Err("unknown parameter", Note(ctx, "name", Head(params).Key)))),
             Tail(params))

\* the end of validParameters: a missing required parameter is reported and
\* backfilled with an empty KeyValue
Backfill(ctx, req, present) ==
    Failed([n \in DOMAIN present |->
               IF n \in Range(req) /\ present[n] = Nil THEN KeyValue("", Nil) ELSE present[n]],
           SumBags([i \in 1..Len(req) |->
               IF present[req[i]] = Nil
               THEN Err("missing required parameter", Note(ctx, "missing", req[i]))
               ELSE NoErr]))

\* validParameters: the map from the required and optional names to the
\* parameter given (Nil if none)
validParameters(ctx, params, req, opt) ==
    Then(SetParams(ctx, Ok([n \in Range(req) \cup Range(opt) |-> Nil]),
                   IF params = Nil THEN <<>> ELSE params.Params),
         LAMBDA present : Backfill(ctx, req, present))

\* the switch of updateValidates as a table: the family a validator belongs
\* to, the field it sets, and the assert* that reads its value
Validator(family, field, assert) == [family |-> family, field |-> field, assert |-> assert]

ValidatorOf(key) ==
    CASE key = "max" -> Validator("Number", "Maximum", "Number")
      [] key = "min" -> Validator("Number", "Minimum", "Number")
      [] key = "exclusive-max" -> Validator("Number", "ExclusiveMaximum", "Bool")
      [] key = "exclusive-min" -> Validator("Number", "ExclusiveMinimum", "Bool")
      [] key = "multiple-of" -> Validator("Number", "MultipleOf", "Number")
      [] key = "max-length" -> Validator("String", "MaxLength", "UNumber")
      [] key = "min-length" -> Validator("String", "MinLength", "UNumber")
      [] key = "pattern" -> Validator("String", "Pattern", "String")
      [] key = "max-items" -> Validator("List", "MaxItems", "UNumber")
      [] key = "min-items" -> Validator("List", "MinItems", "UNumber")
      [] key = "unique-items" -> Validator("List", "UniqueItems", "Bool")
      [] key = "max-props" -> Validator("Objectish", "MaxProperties", "UNumber")
      [] key = "min-props" -> Validator("Objectish", "MinProperties", "UNumber")
      [] OTHER -> Nil

\* &irc.Numeric{}, &irc.String{}, &irc.List{}, &irc.Object{}
ZeroOf(family) ==
    CASE family = "Number" -> EmptyNumeric
      [] family = "String" -> EmptyString
      [] family = "List" -> EmptyList
      [] family = "Objectish" -> EmptyObject

\* assertNumber, assertUNumber, assertBool or assertString
Asserted(ctx, assert, value) ==
    CASE assert = "Number" -> assertNumber(ctx, value)
      [] assert = "UNumber" -> assertUNumber(ctx, value)
      [] assert = "Bool" -> assertBool(ctx, value)
      [] assert = "String" -> assertString(ctx, value)

\* one case of updateValidates: create the family's constraints if absent,
\* set the field to the asserted value
SetValidator(ctx, v, d, value) ==
    Then(Asserted(ctx, d.assert, value), LAMBDA x :
        Ok([v EXCEPT ![d.family] =
               [(IF v[d.family] = Nil THEN ZeroOf(d.family) ELSE v[d.family]) EXCEPT ![d.field] = x]]))

\* updateValidates
updateValidates(ctx, v, kv) ==
    IF ValidatorOf(kv.Key) = Nil THEN Failed(v, Err("unknown validator", ctx))
    ELSE SetValidator(ctx, v, ValidatorOf(kv.Key), kv.Value)

RECURSIVE UpdateValidatesAll(_, _, _)
\* updateValidates for each parameter of `validates(...)`, in order
UpdateValidatesAll(ctx, r, params) ==
    IF params = <<>> THEN r
    ELSE UpdateValidatesAll(ctx, Then(r, LAMBDA v : updateValidates(ctx, v, Head(params))),
                            Tail(params))

TwoTypes == "cannot have two different types in the same modifier list"

\* setTypeFrom that does not look at the type already set
setTypeFromUnchecked(ctx, info, mod, typ) == Ok([info EXCEPT !.Type = typ, !.TypeSrc = mod])

\* setTypeFrom
setTypeFrom(ctx, info, mod, typ) ==
    Failed([info EXCEPT !.Type = typ, !.TypeSrc = mod],
           IF info.Type # Nil THEN Err(TwoTypes, Note(ctx, "other type", info.TypeSrc)) ELSE NoErr)

\* refModToRef: writing through the nil ref.GroupVersion panics
refModToRef(mod) == IF mod.GroupVersion # Nil THEN Panic ELSE Ok(IRReference(Nil, mod.Name))

\* the PrimitiveTypeVal case that list, set and simple-map share
PrimitiveItem(ctx, primType, primCase) ==
    IF primType = Nil
    THEN Failed(OneOf(primCase, IRPrimitive("STRING")), Err("unknown primitive type", ctx))
    ELSE Ok(OneOf(primCase, IRPrimitive(primType.prim)))

\* the switch on a `value:` / `key:` parameter that list, set and simple-map
\* share: a primitive or a reference wrapped as the given oneof cases
ItemOf(ctx, val, primCase, refCase, otherMsg) ==
    IF val = Nil THEN Ok(Nil)
    ELSE IF val.val = "PrimitiveType" THEN PrimitiveItem(ctx, keyToPrimitive(val.prim), primCase)
    ELSE IF val.val = "RefType" THEN Then(refModToRef(val.ref), LAMBDA ref : Ok(OneOf(refCase, ref)))
    ELSE Failed(Nil, Err(otherMsg, ctx))

\* modToList: Nil if the modifier is not `list`
modToList(ctx, mod) ==
    IF mod.Key # "list" THEN Ok(Nil)
    ELSE Then(validParameters(ctx, mod.Parameters, <<"value">>, <<>>), LAMBDA present :
         Then(ItemOf(ctx, present["value"].Value, "Primitive", "Reference",
                     "invalid value for list, expected primitive or reference"),
              LAMBDA item : Ok(IRList(item))))

\* the keys of `list-map(keys: ...)`: each list item's name, an error for each
\* item that is not a field path (whose zero-valued name "" is kept)
ListMapKeys(ctx, keysParam) ==
    IF keysParam = Nil \/ keysParam.Value = Nil THEN Ok(<<"name">>)
    ELSE IF keysParam.Value.val = "List"
    THEN Collect([i \in 1..Len(keysParam.Value.Values) |->
             IF IsVal(keysParam.Value.Values[i], "FieldPath")
             THEN Ok(keysParam.Value.Values[i].field)
             ELSE Failed("", Err("invalid key, expected a field path", ctx))])
    ELSE Failed(<<>>, Err("invalid keys for list, expected a list of field paths", ctx))

\* the `value:` switch of list-map
ListMapItems(ctx, val) ==
    IF val = Nil THEN Ok(Nil)
    ELSE IF val.val = "RefType" THEN refModToRef(val.ref)
    ELSE Failed(Nil, Err("invalid value for list-map, expected reference", ctx))

InvalidMapValue ==
    "invalid value for simple-map, expected primitive, reference, or (primitive-y) list"

\* the `value:` switch of simple-map
SimpleMapValue(ctx, val) ==
    IF IsVal(val, "CompoundType")
    THEN Then(modToList(ctx, val.compound), LAMBDA l :
             Failed(OneOf("SimpleListValue", l),
                    IF l = Nil THEN Err(InvalidMapValue, ctx) ELSE NoErr))
    ELSE ItemOf(ctx, val, "PrimitiveValue", "ReferenceValue", InvalidMapValue)

\* the `key:` switch of simple-map
SimpleMapKey(ctx, keyParam) ==
    IF keyParam = Nil THEN Ok(OneOf("PrimitiveKey", IRPrimitive("STRING")))
    ELSE ItemOf(ctx, keyParam.Value, "PrimitiveKey", "ReferenceKey",
                "invalid key for simple-map, expected primitive or reference to one")

\* "cannot set <what> twice in the same modifier list" when it was set
Twice(ctx, was, msg) == IF was THEN Err(msg, ctx) ELSE NoErr

\* the cases of updateTypeInfo for a KeyishModifier that is not a primitive;
\* ctx carries the modifier's name
KeyishCase(ctx, info, mod) ==
    CASE mod.Key = "list" ->
           Then(modToList(ctx, mod), LAMBDA l : setTypeFrom(ctx, info, mod, OneOf("ListType", l)))
      [] mod.Key = "list-map" ->
           Then(validParameters(ctx, mod.Parameters, <<"value">>, <<"keys">>), LAMBDA present :
           Then(ListMapItems(ctx, present["value"].Value), LAMBDA ref :
           Then(ListMapKeys(ctx, present["keys"]), LAMBDA keys :
                setTypeFrom(ctx, info, mod, OneOf("ListMapType", IRListMap(ref, keys))))))
      [] mod.Key = "set" ->
           Then(validParameters(ctx, mod.Parameters, <<"value">>, <<>>), LAMBDA present :
           Then(ItemOf(ctx, present["value"].Value, "Primitive", "Reference",
                       "invalid value for set, expected primitive or reference"),
                LAMBDA item : setTypeFrom(ctx, info, mod, OneOf("SetType", IRSet(item)))))
      [] mod.Key = "simple-map" ->
           Then(validParameters(ctx, mod.Parameters, <<"value">>, <<"key">>), LAMBDA present :
           Then(SimpleMapValue(ctx, present["value"].Value), LAMBDA value :
           Then(SimpleMapKey(ctx, present["key"]), LAMBDA key :
                setTypeFrom(ctx, info, mod, OneOf("PrimitiveMapType", IRPrimitiveMap(key, value))))))
      [] mod.Key = "optional" ->
           Then(validParameters(ctx, mod.Parameters, <<>>, <<"default">>), LAMBDA present :
                Failed([info EXCEPT !.Optional = TRUE,
                                    !.Default = IF present["default"] # Nil
                                                THEN present["default"].Value ELSE @],
                       Twice(ctx, info.Optional, "cannot set optional twice in the same modifier list")))
      [] mod.Key = "create-only" ->
           Failed([info EXCEPT !.CreateOnly = TRUE],
                  Twice(ctx, info.CreateOnly, "cannot set create-only twice in the same modifier list"))
      [] mod.Key \in {"preserves-unknown-fields", "embedded-kind"} -> Panic
      [] mod.Key = "validates" ->
           Then(UpdateValidatesAll(ctx, Ok(EmptyValidates),
                                   IF mod.Parameters = Nil THEN <<>> ELSE mod.Parameters.Params),
                LAMBDA v :
                Failed([info EXCEPT !.Validates = v],
                       Twice(ctx, info.Validates # Nil,
                             "cannot set validates twice in the same modifier list")))
      [] OTHER -> Failed(info, Err("unknown type modifier", ctx))

\* updateTypeInfo for a KeyishModifier that is not a primitive
updateKeyish(ctx, info, mod) ==
    IF mod.Key \in {"list", "list-map", "set", "simple-map", "optional", "create-only",
                    "preserves-unknown-fields", "embedded-kind", "validates"}
    THEN KeyishCase(Note(ctx, "name", mod.Key), info, mod)
    ELSE KeyishCase(Note(ctx, "modifier", mod.Key), info, mod)

\* updateTypeInfo
updateTypeInfo(ctx, info, mod) ==
    IF mod.mod = "Keyish"
    THEN IF keyToPrimitive(mod.Key) # Nil
         THEN setTypeFrom(ctx, info, mod, OneOf("PrimitiveType", keyToPrimitive(mod.Key)))
         ELSE updateKeyish(ctx, info, mod)
    ELSE Then(refModToRef(mod), LAMBDA ref : setTypeFrom(ctx, info, mod, OneOf("RefType", ref)))

RECURSIVE UpdateAll(_, _, _)
\* the loop of modifiersToKnown; a panic ends it
UpdateAll(ctx, r, mods) ==
    IF mods = <<>> THEN r
    ELSE UpdateAll(ctx, Then(r, LAMBDA info : updateTypeInfo(ctx, info, Head(mods))), Tail(mods))

\* modifiersToKnown
modifiersToKnown(ctx, mods) == UpdateAll(ctx, Ok(EmptyTypeInfo), mods)

(***************************************************************************)
(* passes/fromast: ResolveNested.  The identStack is the sequence of its   *)
(* frames, outermost first.                                                *)
(***************************************************************************)
StackFrame(ident, inScope) == [ident |-> ident, inScope |-> inScope]

\* fullName that stops at the innermost declaration
fullNameInnermost(stack) == IF stack[Len(stack)].ident = "" THEN <<>> ELSE <<stack[Len(stack)].ident>>

RECURSIVE fullName(_)
\* identStack.fullName ("" is the empty sequence of segments)
fullName(stack) ==
    LET c == stack[Len(stack)]
        own == IF c.ident = "" THEN <<>> ELSE <<c.ident>>
    IN IF Len(stack) = 1 \/ stack[Len(stack) - 1].ident = "" THEN own
       ELSE fullName(SubSeq(stack, 1, Len(stack) - 1)) \o <<c.ident>>

\* identStack.fullNameFor
fullNameFor(stack, name) == fullName(stack) \o <<name>>

Unresolvable == "unresolvable identifier"

\* the innermost frame of stack that has name in scope (0 if none)
FrameOf(stack, name) ==
    IF \E i \in 1..Len(stack) : name \in stack[i].inScope
    THEN CHOOSE k \in 1..Len(stack) :
             /\ name \in stack[k].inScope
             /\ \A j \in 1..Len(stack) : name \in stack[j].inScope => j <= k
    ELSE 0

\* identStack.resolveName: name is a sequence of segments; more than one
\* segment means the text contains "::"
resolveName(ctx, stack, name) ==
    IF Len(name) > 1 THEN Ok(name)
    ELSE IF FrameOf(stack, name[1]) # 0
    THEN Ok(fullNameFor(SubSeq(stack, 1, FrameOf(stack, name[1])), name[1]))
    ELSE Failed(name, Err(Unresolvable, Note(ctx, "identifier", name)))

\* identCtx.resolveRef: dereferencing a nil ref panics
resolveRef(ctx, gvRef, stack, ref) ==
    IF ref = Nil THEN Panic
    ELSE IF ref.GroupVersion # Nil THEN Ok(ref)
    ELSE Then(resolveName(ctx, stack, ref.Name), LAMBDA name :
             Ok([ref EXCEPT !.GroupVersion = gvRef, !.Name = name]))

\* resolveRef on the reference inside an Items / Key / Value oneof, if it is one
resolveItem(ctx, gvRef, stack, item, refCase) ==
    IF Is(item, refCase)
    THEN Then(resolveRef(ctx, gvRef, stack, item.val), LAMBDA ref : Ok(OneOf(refCase, ref)))
    ELSE Ok(item)

\* the Value case of resolveModifiers for a simple-map: reading
\* val.SimpleListValue.Items of a nil list panics
resolveMapValue(ctx, gvRef, stack, val) ==
    IF Is(val, "SimpleListValue")
    THEN IF val.val = Nil THEN Panic
         ELSE Then(resolveItem(ctx, gvRef, stack, val.val.Items, "Reference"), LAMBDA item :
                  Ok([val EXCEPT !.val.Items = item]))
    ELSE resolveItem(ctx, gvRef, stack, val, "ReferenceValue")

\* the switch of resolveModifiers on the lowered type
resolveType(ctx, gvRef, stack, typ) ==
    IF typ = Nil THEN Ok(typ)
    ELSE CASE typ.oneof = "RefType" ->
                Then(resolveRef(ctx, gvRef, stack, typ.val), LAMBDA ref : Ok(OneOf("RefType", ref)))
           [] typ.oneof \in {"ListType", "SetType"} ->
                Then(resolveItem(ctx, gvRef, stack, typ.val.Items, "Reference"), LAMBDA item :
                    Ok([typ EXCEPT !.val.Items = item]))
           [] typ.oneof = "ListMapType" ->
                Then(resolveRef(ctx, gvRef, stack, typ.val.Items), LAMBDA ref :
                    Ok([typ EXCEPT !.val.Items = ref]))
           [] typ.oneof = "PrimitiveMapType" ->
                Then(resolveItem(ctx, gvRef, stack, typ.val.Key, "ReferenceKey"), LAMBDA key :
                Then(resolveMapValue(ctx, gvRef, stack, typ.val.Value), LAMBDA value :
                    Ok([typ EXCEPT !.val.Key = key, !.val.Value = value])))
           [] OTHER -> Ok(typ)

\* identCtx.resolveModifiers
resolveModifiers(ctx, gvRef, stack, modifiers) ==
    Then(modifiersToKnown(ctx, modifiers), LAMBDA info :
    Then(resolveType(ctx, gvRef, stack, info.Type), LAMBDA typ :
        Ok([info EXCEPT !.Type = typ])))

\* a field with its ResolvedType set
ResolvedField(field, info) == [Name |-> field.Name, ResolvedType |-> info]

\* identCtx.resolveField
resolveField(ctx, gvRef, stack, field) ==
    Then(resolveModifiers(Note(ctx, "name", field.Name), gvRef, stack, field.Modifiers),
         LAMBDA info : Ok(ResolvedField(field, info)))

\* identCtx.resolveFields
resolveFields(ctx, gvRef, stack, fields) ==
    Collect([i \in 1..Len(fields) |-> resolveField(ctx, gvRef, stack, fields[i])])

\* the names BeginSubtype / BeginKind put in scope for a list of declarations
NamesOf(decls) == {decls[i].Name : i \in 1..Len(decls)}

\* the nested subtypes of a subtype body
SubtypesOfBody(body) == IF body.body \in {"Struct", "Union"} THEN body.Subtypes ELSE <<>>

\* a subtype declaration with ResolvedName set and its body replaced
ResolvedSubtype(stack, st, body) ==
    [decl |-> "Subtype", Name |-> st.Name, FullName |-> fullNameFor(stack, st.Name), Body |-> body]

\* the frame BeginSubtype pushes for st
Inside(stack, st) == Append(stack, StackFrame(st.Name, NamesOf(SubtypesOfBody(st.Body))))

RECURSIVE ResolveSubtype(_, _, _, _)
\* BeginSubtype, enterSubtype and EndSubtype for one subtype declared under
\* stack: the declaration with ResolvedName and ResolvedType set
ResolveSubtype(ctx, gvRef, stack, st) ==
    CASE st.Body.body \in {"Struct", "Union"} ->
           Then(Collect([i \in 1..Len(st.Body.Subtypes) |->
                    ResolveSubtype(ctx, gvRef, Inside(stack, st), st.Body.Subtypes[i])]),
                LAMBDA subtypes :
           Then(resolveFields(Note(ctx, "name", st.Name), gvRef, Inside(stack, st),
                              IF st.Body.body = "Struct" THEN st.Body.Fields ELSE st.Body.Variants),
                LAMBDA fields :
                Ok(ResolvedSubtype(stack, st,
                       IF st.Body.body = "Struct"
                       THEN [st.Body EXCEPT !.Fields = fields, !.Subtypes = subtypes]
                       ELSE [st.Body EXCEPT !.Variants = fields, !.Subtypes = subtypes]))))
      [] st.Body.body = "Newtype" ->
           Then(resolveModifiers(Note(ctx, "name", st.Name), gvRef, Inside(stack, st),
                                 st.Body.Modifiers),
                LAMBDA info :
                Ok(ResolvedSubtype(stack, st, [body |-> "Newtype", ResolvedType |-> info])))
      [] OTHER -> Ok(ResolvedSubtype(stack, st, st.Body))

\* BeginKind, EnterKind, visitSubtypes and EndKind for one kind
ResolveKind(ctx, gvRef, stack, kind) ==
    Then(Collect([i \in 1..Len(kind.Subtypes) |->
             ResolveSubtype(ctx, gvRef, Append(stack, StackFrame(kind.Name, NamesOf(kind.Subtypes))),
                            kind.Subtypes[i])]),
         LAMBDA subtypes :
    Then(resolveFields(Note(ctx, "name", kind.Name), gvRef,
                       Append(stack, StackFrame(kind.Name, NamesOf(kind.Subtypes))), kind.Fields),
         LAMBDA fields :
         Ok([decl |-> "Kind", Name |-> kind.Name, FullName |-> fullNameFor(stack, kind.Name),
             Fields |-> fields, Subtypes |-> subtypes])))

\* the visit of one declaration of a group-version
ResolveDecl(ctx, gvRef, stack, decl) ==
    IF decl.decl = "Kind" THEN ResolveKind(ctx, gvRef, stack, decl)
    ELSE ResolveSubtype(ctx, gvRef, stack, decl)

\* VisitGroupVersion with the identCtx of ResolveNested
VisitGroupVersion(ctx, gv) ==
    Then(Collect([i \in 1..Len(gv.Decls) |->
             ResolveDecl(ctx, [Group |-> gv.Group, Version |-> gv.Version],
                         <<StackFrame("", NamesOf(gv.Decls))>>, gv.Decls[i])]),
         LAMBDA decls : Ok([gv EXCEPT !.Decls = decls]))

\* fromast.ResolveNested
ResolveNested(ctx, file) ==
    Then(Collect([i \in 1..Len(file.GroupVersions) |->
             VisitGroupVersion(ctx, file.GroupVersions[i])]),
         LAMBDA gvs : Ok([file EXCEPT !.GroupVersions = gvs]))

(***************************************************************************)
(* passes/toir: lowering the resolved tree to IR.                          *)
(***************************************************************************)
OnlyNumber == "string validation is only supported for int32, int64, and dangerous-float64"

OnlyString == "string validation is only supported for string and bytes"

OnlyList == "list validation is only supported for lists, sets, and list-maps"

OnlyObjectish == "object-ish validation is only supported for simple-maps and structs"

\* onlyConstrain that returns after the first family it reports
onlyConstrainOnce(ctx, info, allowed) ==
    IF info = Nil THEN NoErr
    ELSE IF allowed # "Number" /\ info.Number # Nil THEN Err(OnlyNumber, ctx)
    ELSE IF allowed # "String" /\ info.String # Nil THEN Err(OnlyString, ctx)
    ELSE IF allowed # "List" /\ info.List # Nil THEN Err(OnlyList, ctx)
    ELSE IF allowed # "Objectish" /\ info.Objectish # Nil THEN Err(OnlyObjectish, ctx)
    ELSE NoErr

\* onlyConstrain: allowed is "Number", "String", "List", "Objectish" or "No"
onlyConstrain(ctx, info, allowed) ==
    IF info = Nil THEN NoErr
    ELSE (IF allowed # "Number" /\ info.Number # Nil THEN Err(OnlyNumber, ctx) ELSE NoErr)
         (+) (IF allowed # "String" /\ info.String # Nil THEN Err(OnlyString, ctx) ELSE NoErr)
         (+) (IF allowed # "List" /\ info.List # Nil THEN Err(OnlyList, ctx) ELSE NoErr)
         (+) (IF allowed # "Objectish" /\ info.Objectish # Nil THEN Err(OnlyObjectish, ctx) ELSE NoErr)

\* the validation family primConstraints allows for a primitive type
AllowedFor(type) ==
    CASE type \in {"LEGACYINT32", "INT64", "LEGACYFLOAT64"} -> "Number"
      [] type \in {"STRING", "BYTES", "TIME", "DURATION", "QUANTITY"} -> "String"
      [] type \in {"BOOL", "INTORSTRING"} -> "No"

\* primConstraints: the primitive with SpecificConstraints set
primConstraints(ctx, prim, info) ==
    IF info = Nil THEN Ok(prim)
    ELSE Failed(CASE AllowedFor(prim.Type) = "Number" ->
                       [prim EXCEPT !.SpecificConstraints = OneOf("NumericConstraints", info.Number)]
                  [] AllowedFor(prim.Type) = "String" ->
                       [prim EXCEPT !.SpecificConstraints = OneOf("StringConstraints", info.String)]
                  [] OTHER -> prim,
                onlyConstrain(ctx, info, AllowedFor(prim.Type)))

OnlyOneType == "only one \"type\" of validation may be specified at once"

\* the families of validation that info sets
Given(info) == {f \in {"Number", "String", "List", "Objectish"} : info[f] # Nil}

\* the errors of refConstraints: each family present with another one reports
OneTypeOnly(ctx, given) ==
    IF Cardinality(given) > 1
    THEN SumBags([i \in 1..Len(SetToSeq(given)) |->
             Err(OnlyOneType, Note(ctx, "if you use", SetToSeq(given)[i]))])
    ELSE NoErr

\* refConstraints: the later family wins
refConstraints(ctx, ref, info) ==
    IF info = Nil THEN Ok(ref)
    ELSE Failed([ref EXCEPT !.Constraints =
                    IF info.Objectish # Nil THEN OneOf("Obj", info.Objectish)
                    ELSE IF info.List # Nil THEN OneOf("List", info.List)
                    ELSE IF info.String # Nil THEN OneOf("Str", info.String)
                    ELSE IF info.Number # Nil THEN OneOf("Num", info.Number)
                    ELSE @],
                OneTypeOnly(ctx, Given(info)))

\* a list, set or list-map with its ListConstraints set
WithListConstraints(body, v) == IF v = Nil THEN body ELSE [body EXCEPT !.ListConstraints = v.List]

\* a simple-map with its ObjectConstraints set
WithObjectConstraints(body, v) ==
    IF v = Nil THEN body ELSE [body EXCEPT !.ObjectConstraints = v.Objectish]

\* the switch that toir.Field and toir.Subtype (for a newtype) share on the
\* resolved type typ with validation v; refCase and primCase are the names of
\* the reference and primitive cases in the oneof being filled
LowerType(ctx, typ, v, refCase, primCase) ==
    IF typ = Nil THEN Panic
    ELSE CASE typ.oneof = "PrimitiveType" ->
                Then(primConstraints(ctx, IRPrimitive(typ.val.prim), v), LAMBDA prim :
                    Ok(OneOf(primCase, prim)))
           [] typ.oneof = "RefType" ->
                Then(refConstraints(ctx, typ.val, v), LAMBDA ref : Ok(OneOf(refCase, ref)))
           [] typ.oneof = "ListType" ->
                Failed(OneOf("List", WithListConstraints(typ.val, v)), onlyConstrain(ctx, v, "List"))
           [] typ.oneof = "SetType" ->
                Failed(OneOf("Set", WithListConstraints(typ.val, v)), onlyConstrain(ctx, v, "List"))
           [] typ.oneof = "ListMapType" ->
                Failed(OneOf("ListMap", WithListConstraints(typ.val, v)),
                       onlyConstrain(ctx, v, "List"))
           [] typ.oneof = "PrimitiveMapType" ->
                Failed(OneOf("PrimitiveMap", WithObjectConstraints(typ.val, v)),
                       onlyConstrain(ctx, v, "Objectish"))

\* toir.Field
Field(ctx, field) ==
    Then(LowerType(Note(ctx, "name", field.Name), field.ResolvedType.Type,
                   field.ResolvedType.Validates, "NamedType", "Primitive"),
         LAMBDA type : Ok(IRField(field.Name, field.ResolvedType.Optional, type)))

\* toir.Field for each field of a list
Fields(ctx, fields) == Collect([i \in 1..Len(fields) |-> Field(ctx, fields[i])])

RECURSIVE Subtypes(_, _)
RECURSIVE Subtype(_, _)
\* toir.Subtype for each subtype of a list: the IR subtypes appended to
\* gv.Types
Subtypes(ctx, subtypes) ==
    Then(Collect([i \in 1..Len(subtypes) |-> Subtype(ctx, subtypes[i])]), LAMBDA types :
        Ok(FlatSeq(types)))

\* the body of toir.Subtype: ctx carries the subtype's name
SubtypeBody(ctx, st) ==
    CASE st.Body.body = "Struct" ->
           Then(Fields(ctx, st.Body.Fields), LAMBDA fields :
           Then(Subtypes(ctx, st.Body.Subtypes), LAMBDA nested :
               Ok(<<IRSubtype(st.FullName, OneOf("Struct", IRStruct(fields)))>> \o nested)))
      [] st.Body.body = "Union" ->
           Then(Fields(ctx, st.Body.Variants), LAMBDA fields :
           Then(Subtypes(ctx, st.Body.Subtypes), LAMBDA nested :
               Ok(<<IRSubtype(st.FullName,
                              OneOf("Union", IRUnion(st.Body.Tag, st.Body.Untagged, fields)))>>
                  \o nested)))
      [] st.Body.body = "Enum" ->
           Ok(<<IRSubtype(st.FullName, OneOf("Enum", IREnum(st.Body.EnumVariants)))>>)
      [] st.Body.body = "Newtype" ->
           Then(LowerType(ctx, st.Body.ResolvedType.Type, st.Body.ResolvedType.Validates,
                          "ReferenceAlias", "PrimitiveAlias"),
                LAMBDA type : Ok(<<IRSubtype(st.FullName, type)>>))

\* toir.Subtype: the IR subtypes it appends to gv.Types, itself first, then
\* those of its nested subtypes
Subtype(ctx, st) == SubtypeBody(Note(ctx, "name", st.Name), st)

\* the body of toir.Kind: ctx carries the kind's name
KindBody(ctx, kind) ==
    Then(Fields(ctx, kind.Fields), LAMBDA fields :
    Then(Subtypes(ctx, kind.Subtypes), LAMBDA types :
        Ok([kinds |-> <<IRKind(<<kind.Name>>, fields)>>, types |-> types])))

\* toir.Kind: the IR kind, and the IR subtypes of its nested subtypes
Kind(ctx, kind) == KindBody(Note(ctx, "name", kind.Name), kind)

\* the case of toir.GroupVersion for one declaration: what it appends to
\* gv.Kinds and to gv.Types
Declared(ctx, decl) ==
    IF decl.decl = "Kind" THEN Kind(ctx, decl)
    ELSE Then(Subtype(ctx, decl), LAMBDA types : Ok([kinds |-> <<>>, types |-> types]))

\* toir.GroupVersion
ToIRGroupVersion(ctx, gv) ==
    Then(Collect([i \in 1..Len(gv.Decls) |-> Declared(ctx, gv.Decls[i])]), LAMBDA ds :
        Ok(IRGroupVersion(gv.Group, gv.Version,
                          FlatSeq([i \in 1..Len(ds) |-> ds[i].kinds]),
                          FlatSeq([i \in 1..Len(ds) |-> ds[i].types]))))

\* all orders of the elements of a set (the orders a Go range over a map takes)
Orders(S) == {s \in [1..Cardinality(S) -> S] : \A i, j \in DOMAIN s : i # j => s[i] # s[j]}

\* toir.Imports: the dependency lists it can build, one per iteration order
\* of the imports.Types.Imports map
Imports(imports) ==
    IF imports = Nil THEN {<<>>}
    ELSE {[i \in 1..Len(o) |-> IRDependency(o[i].GroupVersion, o[i].Src)] : o \in Orders(imports.Types)}

(***************************************************************************)
(* loader: what loader.Load returns for a path.                            *)
(***************************************************************************)
Loaded(partial, errs, panics) == [partial |-> partial, errs |-> errs, panics |-> panics]

\* the partials toir.File can return once its group-versions are lowered
Partials(imports, r) ==
    {Loaded(IRPartial(deps, r.val), r.errs, r.panics) : deps \in Imports(imports)}

\* toir.File: the partials it can return
File(ctx, file) ==
    Partials(file.Imports,
             Collect([i \in 1..Len(file.GroupVersions) |->
                 ToIRGroupVersion(ctx, file.GroupVersions[i])]))

\* passes.FileToIR after its only AST pass, whose outcome is r
AfterResolve(ctx, r) ==
    IF r.panics THEN {Loaded(EmptyPartial, r.errs, TRUE)}
    ELSE IF HadError(r.errs) THEN {Loaded(EmptyPartial, r.errs, FALSE)}
    ELSE File(ctx, r.val)

\* passes.FileToIR: the only AST pass is ResolveNested
FileToIR(ctx, file) == AfterResolve(ctx, ResolveNested(ctx, file))

\* loader.Load: the partials it can return, with the diagnostics recorded on
\* the way
LoadOutcomes(w, ctx, path, hadError) ==
    LET file == w.files[path]
    IN IF file.form = "compiled"
       THEN {Loaded(IF file.partial = Nil THEN EmptyPartial ELSE file.partial, NoErr, FALSE)}
       ELSE IF hadError \* after parser.Parse: an earlier error ends the load
       THEN {Loaded(EmptyPartial, NoErr, FALSE)}
       ELSE FileToIR(ctx, file.ast)

(***************************************************************************)
(* The inputs: files as the parser delivers them, and compiled partials.   *)
(***************************************************************************)
World(files, roots) == [files |-> files, roots |-> roots]

SourceFile(ast) == [form |-> "source", ast |-> ast]

CompiledFile(partial) == [form |-> "compiled", partial |-> partial]

CoreV1 == [Group |-> "core", Version |-> "v1"]

AppsV1 == [Group |-> "apps", Version |-> "v1"]

Key(k) == KeyishModifier(k, Nil)

KeyWith(k, params) == KeyishModifier(k, ParameterList(params))

Ref(name) == RefModifier(Nil, name)

TypeVal(name) == RefTypeVal(Ref(name))

\* validates(key: value)
Validates(key, value) == KeyWith("validates", <<KeyValue(key, value)>>)

\* one validator of each family
OneOfEach ==
    {Validates("max", NumVal(3)), Validates("min-length", NumVal(2)),
     Validates("max-items", NumVal(4)), Validates("min-props", NumVal(1))}

\* the declarations every source file of the catalogue shares:
\*   struct Item { name: string, id: int32, }
\*   union Choice { a: string, b: int32, }
\*   newtype Str: string;   newtype Alias: Item;
ItemDecl ==
    ASTSubtypeDecl("Item", Struct(<<ASTField("name", <<Key("string")>>),
                                    ASTField("id", <<Key("int32")>>)>>, <<>>))

ChoiceDecl ==
    ASTSubtypeDecl("Choice", Union("type", FALSE, <<ASTField("a", <<Key("string")>>),
                                                    ASTField("b", <<Key("int32")>>)>>, <<>>))

StrDecl == ASTSubtypeDecl("Str", Newtype(<<Key("string")>>))

AliasDecl == ASTSubtypeDecl("Alias", Newtype(<<Ref(<<"Item">>)>>))

\* kind Pod { name: string, probe: <mods>, struct Inner { n: string, } }
PodDecl(mods) ==
    ASTKindDecl("Pod", <<ASTField("name", <<Key("string")>>), ASTField("probe", mods)>>,
                <<ASTSubtypeDecl("Inner", Struct(<<ASTField("n", <<Key("string")>>)>>, <<>>))>>)

\* a file of group-version core/v1 with the shared declarations and the given ones
CoreFile(imports, decls) ==
    ASTFile(imports, <<ASTGroupVersion("core", "v1", <<ItemDecl, ChoiceDecl, StrDecl, AliasDecl>> \o decls)>>)

(***************************************************************************)
(* The compile: loader.Config.Load.                                        *)
(***************************************************************************)
VARIABLES
    world,        \* the files the Loader serves and Config.Roots
    rootIdx,      \* position of Config.Load's loop over the roots
    stack,        \* the AddFile calls in progress, innermost last
    PathToNode,   \* Graph.PathToNode; Nil is the placeholder of avoidCycle
    GVToNode,     \* Graph.GVToNode
    heap,         \* the References/Terminals maps, by the object that made them
    diags,        \* the diagnostics recorded by trace.ErrorAt
    pc,           \* where Config.Load is
    pending,      \* paths that the running range over PathToNode has yet to visit
    loads,        \* what each call of loader.Load returned, per path
    Outputs,      \* Config.Outputs
    input,        \* the token types the Lexer of a Parser yields before EOF
    nextTok,      \* Parser.nextTok, as its position in input
    calls,        \* what the running parse functions have left to do, next first
    reported,     \* the diagnostics recorded through Parser.Error
    regs,         \* the return values and locals of the parse functions in use
    recovered,    \* the last recovery of expectOrRecover: where, what for, how far
    marked,       \* the group-versions of the ast.File that ResolveMarkers is given
    visiting,     \* what the marker visitor has yet to enter, next first
    mtrace,       \* the diagnostics recorded while the markers are resolved
    mpc,          \* where the marker pass and the lowering of the markers are
    source,       \* the runes of the source a Lexer reads
    lex,          \* the Lexer: the offset of its scanner, tokBuf, fakeNext, its errors
    lexed,        \* the Tokens that Next has returned, each with its TokenText
    decoding      \* the locals of the parseString that decodes the last Token

parserVars == <<input, nextTok, calls, reported, regs, recovered>>

compileVars == <<world, rootIdx, stack, PathToNode, GVToNode, heap, diags, pc, pending, loads, Outputs>>

markerVars == <<marked, visiting, mtrace, mpc>>

lexerVars == <<source, lex, lexed, decoding>>

vars == <<compileVars, parserVars, markerVars, lexerVars>>

ImportCycle == "import cycle detected"

\* hasCycle that does not know the placeholder of avoidCycle
hasCycleUnseen(N, path) == FALSE

\* Graph.hasCycle
hasCycle(N, path) == path \in DOMAIN N /\ N[path] = Nil

\* an AddFile call that has placed its placeholder and is at dependency next
Frame(ctx, path, partial) == [ctx |-> ctx, path |-> path, partial |-> partial, next |-> 1]

\* the program stops with a Go panic
Crash(errs) ==
    /\ pc' = "panic"
    /\ diags' = diags (+) errs
    /\ UNCHANGED <<world, parserVars, markerVars, lexerVars, rootIdx, stack, PathToNode, GVToNode, heap, pending, Outputs>>

\* one iteration of Config.Load's loop up to the call of Graph.AddFile, which
\* places the placeholder (avoidCycle) and starts on the dependencies
LoadRoot ==
    /\ pc = "roots" /\ stack = <<>> /\ rootIdx <= Len(world.roots)
    /\ LET rootPath == world.roots[rootIdx]
       IN IF hasCycle(PathToNode, rootPath)
          THEN \* Graph.Contains reports the cycle and MaybeLoad returns nil
               /\ diags' = diags (+) Err(ImportCycle, Background)
               /\ rootIdx' = rootIdx + 1
               /\ UNCHANGED <<world, parserVars, markerVars, lexerVars, stack, PathToNode, GVToNode, heap, pc, pending, loads, Outputs>>
          ELSE IF rootPath \in DOMAIN PathToNode
          THEN /\ rootIdx' = rootIdx + 1
               /\ UNCHANGED <<world, parserVars, markerVars, lexerVars, stack, PathToNode, GVToNode, heap, diags, pc, pending, loads, Outputs>>
          ELSE \E out \in LoadOutcomes(world, Note(Background, "path", rootPath), rootPath, HadError(diags)) :
                 /\ loads' = [loads EXCEPT ![rootPath] = Append(@, out)]
                 /\ IF out.panics THEN Crash(out.errs)
                    ELSE /\ diags' = diags (+) out.errs
                         /\ IF HadError(diags')
                            THEN /\ rootIdx' = rootIdx + 1
                                 /\ UNCHANGED <<stack, PathToNode>>
                            ELSE /\ PathToNode' = MapPut(PathToNode, rootPath, Nil)
                                 /\ stack' = <<Frame(Note(Background, "path", rootPath),
                                                     rootPath, out.partial)>>
                                 /\ UNCHANGED rootIdx
                         /\ UNCHANGED <<world, parserVars, markerVars, lexerVars, GVToNode, heap, pc, pending, Outputs>>

\* Graph.require that, on an import cycle, also gives up the AddFile that
\* asked: the file in progress is never saved
cycleGivesUp(depCtx, stepped) ==
    /\ diags' = diags (+) Err(ImportCycle, depCtx)
    /\ stack' = SubSeq(stepped, 1, Len(stepped) - 1)
    /\ rootIdx' = IF Len(stepped) = 1 THEN rootIdx + 1 ELSE rootIdx
    /\ UNCHANGED <<world, parserVars, markerVars, lexerVars, PathToNode, GVToNode, heap, pc, pending, loads, Outputs>>

\* Graph.require of a path that is a placeholder: the cycle is reported and
\* the AddFile that asked goes on to its next dependency
cycleDetected(depCtx, stepped) ==
    /\ diags' = diags (+) Err(ImportCycle, depCtx)
    /\ stack' = stepped
    /\ UNCHANGED <<world, parserVars, markerVars, lexerVars, rootIdx, PathToNode, GVToNode, heap, pc, pending, loads, Outputs>>

\* the next dependency of the innermost AddFile: Graph.require
Require ==
    /\ pc = "roots" /\ stack # <<>>
    /\ LET f == stack[Len(stack)]
           deps == f.partial.Dependencies
       IN /\ f.next <= Len(deps)
          /\ LET dep == deps[f.next]
                 depCtx == Note(Note(f.ctx, "path", dep.From), "group-version", dep.GroupVersion)
                 stepped == [stack EXCEPT ![Len(stack)].next = @ + 1]
             IN IF hasCycle(PathToNode, dep.From)
                THEN cycleDetected(depCtx, stepped)
                ELSE IF dep.From \in DOMAIN PathToNode
                THEN /\ stack' = stepped
                     /\ UNCHANGED <<world, parserVars, markerVars, lexerVars, rootIdx, PathToNode, GVToNode, heap, diags, pc, pending, loads, Outputs>>
                ELSE \E out \in LoadOutcomes(world, Note(depCtx, "path", dep.From), dep.From, HadError(diags)) :
                       /\ loads' = [loads EXCEPT ![dep.From] = Append(@, out)]
                       /\ IF out.panics THEN Crash(out.errs)
                          ELSE /\ diags' = diags (+) out.errs
                               /\ PathToNode' = MapPut(PathToNode, dep.From, Nil)
                               /\ stack' = Append(stepped, Frame(depCtx, dep.From, out.partial))
                               /\ UNCHANGED <<world, parserVars, markerVars, lexerVars, rootIdx, GVToNode, heap, pc, pending, Outputs>>

\* the end of the innermost AddFile: buildNode and saveNode
BuildAndSave ==
    /\ pc = "roots" /\ stack # <<>>
    /\ LET f == stack[Len(stack)]
           r == buildNode(f.ctx, f.path, f.partial)
       IN /\ f.next > Len(f.partial.Dependencies)
          /\ UNCHANGED loads
          /\ IF r.panics \/ (f.path \in DOMAIN PathToNode /\ PathToNode[f.path] # Nil)
             THEN Crash(r.errs)
             ELSE /\ PathToNode' = MapPut(PathToNode, f.path, Node(f.path, f.partial))
                  /\ heap' = MapPut(heap, NodeMaps(f.path), r.maps)
                  /\ diags' = diags (+) r.errs
                  /\ stack' = SubSeq(stack, 1, Len(stack) - 1)
                  /\ rootIdx' = IF Len(stack) = 1 THEN rootIdx + 1 ELSE rootIdx
                  /\ UNCHANGED <<world, parserVars, markerVars, lexerVars, GVToNode, pc, pending, Outputs>>

\* the roots are done: typecheck.CheckAll starts with Graph.MergeNodes
BeginMerge ==
    /\ pc = "roots" /\ stack = <<>> /\ rootIdx > Len(world.roots)
    /\ pc' = "merge"
    /\ pending' = DOMAIN PathToNode
    /\ UNCHANGED <<world, parserVars, markerVars, lexerVars, rootIdx, stack, PathToNode, GVToNode, heap, diags, loads, Outputs>>

\* one iteration of MergeNodes' range over PathToNode, in the order Go picks
MergeStep ==
    /\ pc = "merge"
    /\ \E path \in pending :
         LET node == PathToNode[path]
         IN /\ UNCHANGED loads
            /\ IF node = Nil THEN Crash(NoErr)
               ELSE LET st == MergeNode(Background, [G |-> GVToNode, H |-> heap, errs |-> NoErr],
                                        node, node.Partial.GroupVersions)
                    IN /\ GVToNode' = st.G
                       /\ heap' = st.H
                       /\ diags' = diags (+) st.errs
                       /\ pending' = pending \ {path}
                       /\ UNCHANGED <<world, parserVars, markerVars, lexerVars, rootIdx, stack, PathToNode, pc, Outputs>>

\* MergeNodes is over: CheckAll returns if anything was reported so far
EndMerge ==
    /\ pc = "merge" /\ pending = {}
    /\ pc' = IF HadError(diags) THEN "return" ELSE "refs"
    /\ UNCHANGED <<world, parserVars, markerVars, lexerVars, rootIdx, stack, PathToNode, GVToNode, heap, diags, pending, loads, Outputs>>

\* a check phase of CheckAll with result r, leading to pc value then
Phase(r, then) ==
    /\ diags' = diags (+) r.errs
    /\ pc' = IF r.panics THEN "panic" ELSE IF r.loops THEN "hang" ELSE then
    /\ UNCHANGED <<world, parserVars, markerVars, lexerVars, rootIdx, stack, PathToNode, GVToNode, heap, pending, loads, Outputs>>

\* g.CheckReferences(ctx, CheckReferences)
CheckReferences ==
    /\ pc = "refs"
    /\ Phase(GraphCheckReferences(PathToNode, GVToNode, heap, Background), "fields")

\* g.CheckFields(ctx, CheckFieldType)
CheckFields ==
    /\ pc = "fields"
    /\ LET check(field) == LET r == CheckFieldType(GVToNode, heap, Background, field)
                           IN Checked(r.errs, r.loops, FALSE)
       IN Phase(GraphCheckFields(PathToNode, check), "subtypes")

\* g.CheckSubtypes(ctx, CheckWrapperType)
CheckSubtypes ==
    /\ pc = "subtypes"
    /\ LET check(st) == LET r == CheckWrapperType(GVToNode, heap, Background, st)
                        IN Checked(r.errs, r.loops, FALSE)
       IN Phase(GraphCheckSubtypes(PathToNode, check), "return")

\* CheckAll has returned: Config.Load publishes the graph unless HadError
Return ==
    /\ pc = "return"
    /\ pc' = "done"
    /\ Outputs' = IF HadError(diags) THEN Nil ELSE [graph |-> TRUE]
    /\ UNCHANGED <<world, parserVars, markerVars, lexerVars, rootIdx, stack, PathToNode, GVToNode, heap, diags, pending, loads>>

Next ==
    \/ LoadRoot
    \/ Require
    \/ BuildAndSave
    \/ BeginMerge
    \/ MergeStep
    \/ EndMerge
    \/ CheckReferences
    \/ CheckFields
    \/ CheckSubtypes
    \/ Return

\* the state of Config.Load after NewGraph, for a world w
Start(w) ==
    /\ world = w
    /\ rootIdx = 1
    /\ stack = <<>>
    /\ PathToNode = EmptyMap
    /\ GVToNode = EmptyMap
    /\ heap = EmptyMap
    /\ diags = EmptyBag
    /\ pc = "roots"
    /\ pending = {}
    /\ loads = [p \in DOMAIN w.files |-> <<>>]
    /\ Outputs = Nil

\* longest `keys:` list of a list-map in the catalogue
MaxKeys == 2

\* sequences over S of length 1..n
SeqsUpTo(S, n) == UNION {[1..k -> S] : k \in 1..n}

\* `validates(...)` lists: none, one validator, or validators of two families
ValidatesLists ==
    {<<>>} \cup {<<v>> : v \in OneOfEach}
    \cup {<<KeyWith("validates", <<KeyValue("max", NumVal(3)), KeyValue("min-length", NumVal(2))>>)>>,
          <<KeyWith("validates", <<KeyValue("max-items", NumVal(3)), KeyValue("pattern", StringVal("x")),
                                   KeyValue("min-props", NumVal(2))>>)>>}

\* a primitive, possibly validated
PrimitiveProbes ==
    {<<Key(p)>> \o v : p \in {"string", "int32", "bool", "time", "int-or-string"}, v \in ValidatesLists}

\* type names a field of Pod can mention: declared ones, the nested one by its
\* short name and by its path, an undeclared one, and paths that lead nowhere
RefNames ==
    {<<"Item">>, <<"Choice">>, <<"Str">>, <<"Alias">>, <<"Inner">>, <<"Pod", "Inner">>,
     <<"Missing">>, <<"Pod", "Missing">>}

\* a reference, possibly validated
RefProbes ==
    {<<Ref(n)>> : n \in RefNames}
    \cup {<<Ref(n)>> \o v : n \in {<<"Item">>, <<"Str">>, <<"Choice">>}, v \in ValidatesLists}

\* item types of lists and sets, values of simple-maps
ItemVals ==
    {PrimitiveTypeVal("string"), PrimitiveTypeVal("int32"), TypeVal(<<"Item">>), TypeVal(<<"Str">>),
     TypeVal(<<"Pod", "Missing">>)}

ListProbes ==
    {<<KeyWith(k, <<KeyValue("value", v)>>)>> : k \in {"list", "set"}, v \in ItemVals}
    \cup {<<KeyWith("list", <<KeyValue("value", PrimitiveTypeVal("string"))>>)>> \o v : v \in ValidatesLists}
    \cup {<<KeyWith("list", <<KeyValue("value", NumVal(3))>>)>>,
          <<KeyWith("list", <<KeyValue("value", PrimitiveTypeVal("nope"))>>)>>,
          <<KeyWith("list", <<KeyValue("item", PrimitiveTypeVal("string"))>>)>>,
          <<Key("list")>>}

KeyNames == {"name", "id", "type", "nope"}

\* list-map(value: V) and list-map(value: V, keys: [.k, ...])
ListMapProbes ==
    LET vals == {TypeVal(n) : n \in {<<"Item">>, <<"Alias">>, <<"Choice">>, <<"Str">>, <<"Pod", "Missing">>}}
    IN {<<KeyWith("list-map", <<KeyValue("value", v)>>)>> : v \in vals}
       \cup {<<KeyWith("list-map", <<KeyValue("value", v),
                                     KeyValue("keys", ListVal([i \in DOMAIN ks |-> FieldPathVal(ks[i])]))>>)>> :
               v \in vals, ks \in SeqsUpTo(KeyNames, MaxKeys)}
       \cup {<<KeyWith("list-map", <<KeyValue("value", PrimitiveTypeVal("string"))>>)>>,
             <<Key("list-map")>>,
             <<KeyWith("list-map", <<KeyValue("value", TypeVal(<<"Item">>)), KeyValue("keys", NumVal(1))>>)>>,
             <<KeyWith("list-map", <<KeyValue("value", TypeVal(<<"Item">>)),
                                     KeyValue("keys", ListVal(<<StringVal("name")>>))>>)>>}

\* simple-map(value: V) and simple-map(key: K, value: V)
SimpleMapProbes ==
    LET vals == ItemVals
                \cup {CompoundTypeVal(KeyWith("list", <<KeyValue("value", v)>>)) : v \in ItemVals}
                \cup {CompoundTypeVal(KeyWith("set", <<KeyValue("value", PrimitiveTypeVal("string"))>>)),
                      ListVal(<<PrimitiveTypeVal("string")>>)}
        keys == {PrimitiveTypeVal("string"), PrimitiveTypeVal("bool"), PrimitiveTypeVal("int32"),
                 TypeVal(<<"Str">>), TypeVal(<<"Item">>), TypeVal(<<"Pod", "Missing">>), NumVal(1)}
    IN {<<KeyWith("simple-map", <<KeyValue("value", v)>>)>> : v \in vals}
       \cup {<<KeyWith("simple-map", <<KeyValue("key", k), KeyValue("value", v)>>)>> : k \in keys, v \in vals}
       \cup {<<KeyWith("simple-map", <<KeyValue("value", PrimitiveTypeVal("string"))>>)>> \o v :
               v \in ValidatesLists}

\* modifier lists around the type: optional, create-only, none or several types
MiscProbes ==
    {<<Key("optional"), Key("string")>>, <<Key("string"), Key("optional")>>,
     <<Key("optional"), Key("optional"), Key("string")>>,
     <<KeyWith("optional", <<KeyValue("default", NumVal(3))>>), Key("int32")>>,
     <<Key("create-only"), Key("string")>>, <<Key("create-only"), Key("create-only"), Key("string")>>,
     <<Key("string"), Key("int32")>>, <<Key("string"), Ref(<<"Item">>)>>,
     <<Key("optional")>>, <<>>, <<Key("bogus"), Key("string")>>,
     <<Key("embedded-kind"), Ref(<<"Item">>)>>,
     <<Key("string"), Key("embedded-kind"), Key("int32")>>,
     <<RefModifier(CoreV1, <<"Item">>)>>,
     <<Key("string"), Validates("max-length", NumVal(1)), Validates("min-length", NumVal(1))>>,
     <<Key("int32"), Validates("max", StringVal("x"))>>, <<Key("int32"), Validates("maximum", NumVal(1))>>}

\* the modifier lists of the probe field
ProbeMods == PrimitiveProbes \cup RefProbes \cup ListProbes \cup ListMapProbes \cup SimpleMapProbes \cup MiscProbes

\* one source file whose kind Pod has the probe field; compiled as the only root
ProbeWorlds ==
    {World([p \in {"a.kdl"} |-> SourceFile(CoreFile(Nil, <<PodDecl(m)>>))], <<"a.kdl">>) : m \in ProbeMods}

\* union Probe(tag: <tag>) { a: string, <name>: <mods>, } where the name ""
\* is the parser's name for `_inline`
UnionDecl(tag, untagged, name, mods) ==
    ASTSubtypeDecl("Probe", Union(tag, untagged, <<ASTField("a", <<Key("string")>>),
                                                   ASTField(name, mods)>>, <<>>))

\* one source file that declares a union and a kind that uses it
UnionWorlds ==
    {World([p \in {"a.kdl"} |->
               SourceFile(CoreFile(Nil, <<UnionDecl(tag, untagged, name, mods),
                                          PodDecl(<<Ref(<<"Probe">>)>>)>>))],
           <<"a.kdl">>) :
        tag \in {"type", "a"}, untagged \in BOOLEAN, name \in {"b", "type", ""},
        mods \in {<<Key("string")>>, <<Key("optional"), Key("string")>>}}

\* one source file that declares the probe as a newtype and a kind that uses it
WrapperWorlds ==
    {World([p \in {"a.kdl"} |->
               SourceFile(CoreFile(Nil, <<ASTSubtypeDecl("Probe", Newtype(m)),
                                          PodDecl(<<Ref(<<"Probe">>)>>)>>))],
           <<"a.kdl">>) :
        m \in RefProbes \cup ListMapProbes}

\* most roots a compile of the catalogue is given
MaxRoots == 2

\* the root lists over a set of paths
RootLists(paths) == SeqsUpTo(paths, MaxRoots)

\* the ways a file declares the type `name`: as a struct, a kind, a newtype
\* of a primitive, or a newtype of the file's own struct
Declare(form, name, own) ==
    CASE form = "struct" -> ASTSubtypeDecl(name, Struct(<<ASTField("n", <<Key("string")>>)>>, <<>>))
      [] form = "kind" -> ASTKindDecl(name, <<ASTField("n", <<Key("string")>>)>>, <<>>)
      [] form = "wrapper" -> ASTSubtypeDecl(name, Newtype(<<Key("string")>>))
      [] form = "alias" -> ASTSubtypeDecl(name, Newtype(<<Ref(<<own>>)>>))

\* a file of core/v1 that declares a struct of its own and the type `name`
SharingFile(own, form, name) ==
    ASTFile(Nil, <<ASTGroupVersion("core", "v1",
                       <<ASTSubtypeDecl(own, Struct(<<ASTField("n", <<Key("string")>>)>>, <<>>)),
                         Declare(form, name, own)>>)>>)

Forms == {"struct", "kind", "wrapper", "alias"}

\* two source files that both contribute to core/v1: a.kdl declares Dup,
\* b.kdl declares Dup or Other
SharedWorlds ==
    {World([p \in {"a.kdl", "b.kdl"} |->
               IF p = "a.kdl" THEN SourceFile(SharingFile("A", fa, "Dup"))
               ELSE SourceFile(SharingFile("B", fb, name))],
           roots) :
        fa \in Forms, fb \in Forms, name \in {"Dup", "Other"},
        roots \in RootLists({"a.kdl", "b.kdl"})}

\* a file of one group-version that declares one struct and imports the
\* group-versions of `imports`
ImportingFile(gv, name, imports) ==
    ASTFile(IF imports = {} THEN Nil ELSE [Types |-> imports],
            <<ASTGroupVersion(gv.Group, gv.Version,
                  <<ASTSubtypeDecl(name, Struct(<<ASTField("n", <<Key("string")>>)>>, <<>>))>>)>>)

\* a.kdl (core/v1) and b.kdl (apps/v1), each importing the other, only one
\* importing the other, or a.kdl importing itself
ImportWorlds ==
    {World([p \in {"a.kdl", "b.kdl"} |->
               IF p = "a.kdl"
               THEN SourceFile(ImportingFile(CoreV1, "A", {TypeImport(AppsV1, src) : src \in fromA}))
               ELSE SourceFile(ImportingFile(AppsV1, "B", {TypeImport(CoreV1, src) : src \in fromB}))],
           roots) :
        fromA \in {{}, {"b.kdl"}, {"a.kdl"}}, fromB \in {{}, {"a.kdl"}},
        roots \in RootLists({"a.kdl", "b.kdl"})}

BatchV1 == [Group |-> "batch", Version |-> "v1"]

\* b.kdl declares apps/v1 and batch/v1; a.kdl (core/v1) imports both of them,
\* one of them or neither from b.kdl
FanWorlds ==
    {World([p \in {"a.kdl", "b.kdl"} |->
               IF p = "a.kdl"
               THEN SourceFile(ImportingFile(CoreV1, "A", {TypeImport(gv, "b.kdl") : gv \in gvs}))
               ELSE SourceFile(ASTFile(Nil,
                        <<ASTGroupVersion("apps", "v1",
                              <<ASTSubtypeDecl("B", Struct(<<ASTField("n", <<Key("string")>>)>>, <<>>))>>),
                          ASTGroupVersion("batch", "v1",
                              <<ASTSubtypeDecl("C", Struct(<<ASTField("n", <<Key("string")>>)>>, <<>>))>>)>>))],
           roots) :
        gvs \in SUBSET {AppsV1, BatchV1}, roots \in RootLists({"a.kdl", "b.kdl"})}

\* apps/v1 as a compiled partial: struct Thing { n: string, }
AppsGV ==
    IRGroupVersion("apps", "v1", <<>>,
        <<IRSubtype(<<"Thing">>,
              OneOf("Struct", IRStruct(<<IRField("n", FALSE, OneOf("Primitive", IRPrimitive("STRING")))>>)))>>)

\* core/v1 as a compiled partial: newtype Far: <target>; kind Pod { probe: <ref>, }
FarGV(target, ref) ==
    IRGroupVersion("core", "v1",
        <<IRKind(<<"Pod">>, <<IRField("probe", FALSE, OneOf("NamedType", ref))>>)>>,
        <<IRSubtype(<<"Far">>, OneOf("ReferenceAlias", target))>>)

\* compiled partials in which core/v1 refers into apps/v1, directly or through
\* the alias Far: the two group-versions come from two files or from one
FarWorlds ==
    {World([p \in {"a.ckdl", "b.ckdl"} |->
               IF p = "b.ckdl" THEN CompiledFile(IRPartial(<<>>, <<AppsGV>>))
               ELSE IF split
               THEN CompiledFile(IRPartial(<<IRDependency(AppsV1, "b.ckdl")>>, <<FarGV(target, ref)>>))
               ELSE CompiledFile(IRPartial(<<>>, <<FarGV(target, ref), AppsGV>>))],
           <<"a.ckdl">>) :
        split \in BOOLEAN,
        target \in {IRReference(AppsV1, <<"Thing">>), IRReference(AppsV1, <<"Nope">>)},
        ref \in {IRReference(CoreV1, <<"Far">>), IRReference(AppsV1, <<"Thing">>)}}

\* a struct with one string field n, the given further fields and nested subtypes
Nest(name, fields, subtypes) ==
    ASTSubtypeDecl(name, Struct(<<ASTField("n", <<Key("string")>>)>> \o fields, subtypes))

\* declarations nested two deep under a kind and under a struct, one of them
\* named as a declaration of the group-version:
\*   kind Pod { probe: <top>,
\*              struct Inner { deep: <inner>, struct Deep { up: <deepest>, } }
\*              struct Item { } }
\*   struct Outer { in: In, struct In { leaf: <inner>, struct Leaf { } struct Deep { } } }
NestedDecls(top, inner, deepest) ==
    <<ASTKindDecl("Pod", <<ASTField("probe", <<Ref(top)>>)>>,
          <<Nest("Inner", <<ASTField("deep", <<Ref(inner)>>)>>,
                 <<Nest("Deep", <<ASTField("up", <<Ref(deepest)>>)>>, <<>>)>>),
            Nest("Item", <<>>, <<>>)>>),
      Nest("Outer", <<ASTField("in", <<Ref(<<"In">>)>>)>>,
           <<Nest("In", <<ASTField("leaf", <<Ref(inner)>>)>>,
                  <<Nest("Leaf", <<>>, <<>>), Nest("Deep", <<>>, <<>>)>>)>>)>>

\* one source file with the nested declarations; the references are bare
\* names declared at several depths or nowhere, and paths written from the
\* group-version or from an enclosing declaration
NestedWorlds ==
    {World([p \in {"a.kdl"} |-> SourceFile(CoreFile(Nil, NestedDecls(top, inner, deepest)))],
           <<"a.kdl">>) :
        top \in {<<"Item">>, <<"Inner">>, <<"Deep">>, <<"Str">>, <<"Inner", "Deep">>,
                 <<"Pod", "Inner", "Deep">>, <<"Nope", "Deep">>},
        inner \in {<<"Deep">>, <<"Item">>, <<"Str">>, <<"Nope">>},
        deepest \in {<<"Deep">>, <<"Inner">>, <<"Item">>, <<"Outer">>}}

\* a file of one group-version with one struct of one field
PlainFile(gv, name, mods) ==
    ASTFile(Nil, <<ASTGroupVersion(gv.Group, gv.Version,
                       <<ASTSubtypeDecl(name, Struct(<<ASTField("n", mods)>>, <<>>))>>)>>)

\* a.kdl (core/v1) and b.kdl (apps/v1) do not import each other; each is
\* free of errors or refers to a type Nope that nothing declares
MixedWorlds ==
    {World([p \in {"a.kdl", "b.kdl"} |->
               IF p = "a.kdl" THEN SourceFile(PlainFile(CoreV1, "A", <<ma>>))
               ELSE SourceFile(PlainFile(AppsV1, "B", <<mb>>))],
           roots) :
        ma \in {Key("string"), Ref(<<"Nope">>)}, mb \in {Key("string"), Ref(<<"Nope">>)},
        roots \in RootLists({"a.kdl", "b.kdl"})}

\* newtype name: target;
AliasOf(name, target) == ASTSubtypeDecl(name, Newtype(<<Ref(<<target>>)>>))

\* newtypes that name each other: in a ring of two, of one, of three, and in
\* a chain that ends at the struct Item
AliasChains ==
    { <<AliasOf("A", "B"), AliasOf("B", "A")>>,
      <<AliasOf("A", "A")>>,
      <<AliasOf("A", "B"), AliasOf("B", "C"), AliasOf("C", "A")>>,
      <<AliasOf("A", "B"), AliasOf("B", "Item")>> }

\* one source file with newtypes that name each other, and a kind with a
\* field of the first of them or of a primitive
CycleWorlds ==
    {World([p \in {"a.kdl"} |-> SourceFile(CoreFile(Nil, chain \o <<PodDecl(<<m>>)>>))],
           <<"a.kdl">>) :
        chain \in AliasChains, m \in {Ref(<<"A">>), Key("string")}}

\* struct <name> { n: string, }
OneStruct(name) ==
    ASTSubtypeDecl(name, Struct(<<ASTField("n", <<Key("string")>>)>>, <<>>))

\* a.kdl holds two group-version blocks, core/v1 { struct A } and then
\* <group>/v1 { struct B }, where group is core again or apps; b.kdl holds
\* one block core/v1 { struct <name> }, so that core/v1 is merged from up to
\* three blocks
BlockWorlds ==
    {World([p \in {"a.kdl", "b.kdl"} |->
               IF p = "a.kdl"
               THEN SourceFile(ASTFile(Nil, <<ASTGroupVersion("core", "v1", <<OneStruct("A")>>),
                                              ASTGroupVersion(group, "v1", <<OneStruct("B")>>)>>))
               ELSE SourceFile(ASTFile(Nil, <<ASTGroupVersion("core", "v1", <<OneStruct(name)>>)>>))],
           roots) :
        group \in {"core", "apps"}, name \in {"A", "C"},
        roots \in RootLists({"a.kdl", "b.kdl"})}

\* a compiled partial of one group-version <group>/v1 with struct T and the
\* dependencies on the paths of `from`
DependingFile(group, from) ==
    CompiledFile(IRPartial([i \in 1..Len(from) |-> IRDependency(CoreV1, from[i])],
        <<IRGroupVersion(group, "v1", <<>>,
              <<IRSubtype(<<"T">>, OneOf("Struct", IRStruct(<<>>)))>>)>>))

\* a diamond of four compiled files: a.ckdl depends on b.ckdl and c.ckdl, which
\* both depend on d.ckdl; d.ckdl depends on nothing, on itself or back on a.ckdl
DiamondWorlds ==
    {World([p \in {"a.ckdl", "b.ckdl", "c.ckdl", "d.ckdl"} |->
               CASE p = "a.ckdl" -> DependingFile("core", <<"b.ckdl", "c.ckdl">>)
                 [] p = "b.ckdl" -> DependingFile("apps", <<"d.ckdl">>)
                 [] p = "c.ckdl" -> DependingFile("batch", <<"d.ckdl">>)
                 [] OTHER -> DependingFile("meta", back)],
           roots) :
        back \in {<<>>, <<"d.ckdl">>, <<"a.ckdl">>},
        roots \in RootLists({"a.ckdl", "b.ckdl", "d.ckdl"})}

\* the compiles the model runs
Worlds ==
    ProbeWorlds \cup WrapperWorlds \cup UnionWorlds \cup SharedWorlds
    \cup ImportWorlds \cup FarWorlds \cup NestedWorlds \cup FanWorlds \cup MixedWorlds
    \cup CycleWorlds \cup BlockWorlds \cup DiamondWorlds

(***************************************************************************)
(* Parser.parseString: the text of a String Token is decoded.              *)
(***************************************************************************)
\* the runes that open, close and escape in a string literal
Quote == "\""

Backslash == "\\"

\* most bytes parseString is followed to
MaxDecoded == 3

\* the locals of a parseString: raw without its quotes, current, res
Decoding(state, raw, res) == [state |-> state, raw |-> raw, current |-> 0, res |-> res]

\* no parseString has been called
NotDecoding == Decoding("idle", <<>>, <<>>)

\* parseString up to its loop, on the text raw of the Token
startDecoding(raw) ==
    IF Len(raw) < 2 \/ raw[1] # Quote \/ raw[Len(raw)] # Quote
    THEN Decoding("reported", raw, <<>>)
    ELSE Decoding("loop", SubSeq(raw, 2, Len(raw) - 1), <<>>)

\* strings.IndexByte(raw[from:], c), from counted from 0; -1 when there is none
RECURSIVE IndexByte(_, _, _, _)
IndexByte(raw, from, c, i) ==
    IF from + i >= Len(raw) THEN -1
    ELSE IF raw[from + i + 1] = c THEN i
    ELSE IndexByte(raw, from, c, i + 1)

\* raw[from:to], both counted from 0
Slice(raw, from, to) == SubSeq(raw, from + 1, to)

\* the byte that the escape of one rune chr stands for
EscapedByte(chr) ==
    CASE chr = "b" -> "BS"
      [] chr = "f" -> "\f"
      [] chr = "n" -> "\n"
      [] chr = "r" -> "\r"
      [] chr = "t" -> "\t"
      [] OTHER -> chr

\* the value of a hexadecimal digit, -1 for any other rune
HexDigit(c) ==
    CASE c = "0" -> 0 [] c = "1" -> 1 [] c = "4" -> 4
      [] c = "a" -> 10 [] c = "b" -> 11 [] c = "e" -> 14 [] c = "f" -> 15
      [] c = "A" -> 10 [] c = "B" -> 11
      [] OTHER -> -1

\* strconv.ParseUint(digits, 16, 32): -1 when it returns an error
RECURSIVE ParseUint(_, _, _)
ParseUint(digits, i, num) ==
    IF i > Len(digits) THEN num
    ELSE IF HexDigit(digits[i]) < 0 THEN -1
    ELSE ParseUint(digits, i + 1, num * 16 + HexDigit(digits[i]))

\* string(rune(num)), for the runes that the escapes of the sources name
RuneOf(num) ==
    CASE num = 65 -> "A"
      [] num = 10 -> "\n"
      [] OTHER -> "U+FFFD"

\* the turn of the loop has appended the bytes more, and the loop goes on:
\* current is as it was
decodeGoesOn(d, more) == [d EXCEPT !.res = @ \o more]

\* the loop is left in state, the bytes more appended
decodeEnds(d, state, more) == [d EXCEPT !.state = state, !.res = @ \o more]

\* the case 'u' of the switch, chunk being what lies before the backslash
decodeUnicode(d, nextSlash, chunk) ==
    IF nextSlash + 5 >= Len(d.raw) THEN decodeEnds(d, "panicked", chunk)
    ELSE IF ParseUint(Slice(d.raw, nextSlash + 2, nextSlash + 6), 1, 0) < 0
         THEN decodeEnds(d, "panicked", chunk)
    ELSE decodeGoesOn(d, Append(chunk, RuneOf(ParseUint(Slice(d.raw, nextSlash + 2, nextSlash + 6), 1, 0))))

\* the turn of the loop from the backslash at nextSlash on
decodeEscape(d, nextSlash, chunk) ==
    IF nextSlash + 1 >= Len(d.raw) THEN decodeEnds(d, "panicked", chunk)
    ELSE IF d.raw[nextSlash + 2] \in {Quote, Backslash, "/", "b", "f", "n", "r", "t"}
         THEN decodeGoesOn(d, Append(chunk, EscapedByte(d.raw[nextSlash + 2])))
    ELSE IF d.raw[nextSlash + 2] = "u" THEN decodeUnicode(d, nextSlash, chunk)
    ELSE decodeEnds(d, "reported", chunk)

\* one turn of the loop of parseString, its test included
decodeTurn(d) ==
    IF ~(d.current < Len(d.raw)) THEN decodeEnds(d, "returned", <<>>)
    ELSE IF IndexByte(d.raw, d.current, Backslash, 0) = -1
         THEN decodeEnds(d, "returned", Slice(d.raw, d.current, Len(d.raw)))
    ELSE decodeEscape(d, IndexByte(d.raw, d.current, Backslash, 0) + d.current,
                      Slice(d.raw, d.current, IndexByte(d.raw, d.current, Backslash, 0) + d.current))

\* no Parser at work: loader.Load is taken a file at a time (LoadOutcomes)
NoParser ==
    /\ input = <<>>
    /\ nextTok = 1
    /\ calls = <<>>
    /\ reported = <<>>
    /\ regs = [matched |-> TRUE, nilVal |-> FALSE, key |-> 1, present |-> {}, panicked |-> FALSE,
               keyed |-> "none", misfiled |-> {}, vals |-> <<"", "">>,
               decoding |-> NotDecoding]
    /\ recovered = <<>>

\* no marker pass at work
NoMarkers ==
    /\ marked = <<>>
    /\ visiting = <<>>
    /\ mtrace = <<>>
    /\ mpc = "idle"

\* no Lexer at work on its own
NoLexer ==
    /\ source = <<>>
    /\ lex = [sc |-> 0, tokBuf |-> <<>>, fakeNext |-> [Start |-> 0, End |-> 0, Type |-> "0"],
              Errors |-> <<>>]
    /\ lexed = <<>>
    /\ decoding = [state |-> "idle", raw |-> <<>>, current |-> 0, res |-> <<>>]

Init == \E w \in Worlds : Start(w) /\ NoParser /\ NoMarkers /\ NoLexer

Spec == Init /\ [][Next]_vars

(***************************************************************************)
(* What the compile is expected to guarantee.                              *)
(***************************************************************************)
\* Config.Load has returned and no diagnostic was recorded
Clean == pc = "done" /\ diags = EmptyBag

\* how many diagnostics of bag b carry message msg and note key = value
NotedCount(b, msg, key, value) ==
    LET S == {d \in BagToSet(b) : d.msg = msg /\ key \in DOMAIN d.note /\ d.note[key] = value}
        RECURSIVE Sum(_)
        Sum(T) == IF T = {} THEN 0
                  ELSE LET d == CHOOSE e \in T : TRUE IN CopiesIn(d, b) + Sum(T \ {d})
    IN Sum(S)

\* the partials of the graph's nodes, the fields and the subtypes in them
GraphPartials == LET ps == NodePartials(PathToNode) IN SelectSeq(ps, LAMBDA p : p # Nil)

GraphFields ==
    LET ps == GraphPartials IN FlatSeq([i \in 1..Len(ps) |-> FieldsOf(ps[i])])

GraphSubtypes ==
    LET ps == GraphPartials IN FlatSeq([i \in 1..Len(ps) |-> SubtypesOf(ps[i])])

\* every field type and every subtype body of the graph
GraphTypes ==
    LET fields == GraphFields
        subtypes == GraphSubtypes
    IN  [i \in 1..Len(fields) |-> fields[i].Type]
        \o [i \in 1..Len(subtypes) |-> subtypes[i].Type]

\* the reference in a list item, set item, map key or map value, if it is one
ReferenceIn(item) ==
    IF item # Nil /\ item.oneof \in {"Reference", "ReferenceKey", "ReferenceValue"}
    THEN <<item.val>> ELSE <<>>

\* every Reference inside a field type or a wrapper body, the items of a
\* simple-map's list value included
ReferencesOf(typ) ==
    IF typ = Nil THEN <<>>
    ELSE CASE typ.oneof \in {"NamedType", "ReferenceAlias"} -> <<typ.val>>
           [] typ.oneof \in {"Set", "List"} -> ReferenceIn(typ.val.Items)
           [] typ.oneof = "ListMap" -> IF typ.val.Items = Nil THEN <<>> ELSE <<typ.val.Items>>
           [] typ.oneof = "PrimitiveMap" ->
                ReferenceIn(typ.val.Key) \o ReferenceIn(typ.val.Value)
                \o (IF Is(typ.val.Value, "SimpleListValue") /\ typ.val.Value.val # Nil
                    THEN ReferenceIn(typ.val.Value.val.Items) ELSE <<>>)
           [] OTHER -> <<>>

\* every Reference of the graph's partials
GraphReferences ==
    LET types == GraphTypes IN FlatSeq([i \in 1..Len(types) |-> ReferencesOf(types[i])])

\* the reference has a terminal in the merged graph
Resolves(ref) ==
    /\ ref.GroupVersion # Nil
    /\ TerminalFor(GVToNode, heap, Background, NameFromRef(ref)).term # Nil

\* C1: when the compile ends without a diagnostic, every Reference of the
\* graph's partials -- field types, wrapper targets, list, set and list-map
\* items, simple-map keys and values, and the items of a simple-map's list
\* value -- has a terminal in the merged type graph.
AllReferencesResolve ==
    Clean => \A i \in 1..Len(GraphReferences) : Resolves(GraphReferences[i])

\* a clean compile whose graph holds a simple-map with a list value whose item
\* is a reference without terminal
UncheckedListItem ==
    /\ Clean
    /\ \E i \in 1..Len(GraphTypes) :
         /\ Is(GraphTypes[i], "PrimitiveMap")
         /\ Is(GraphTypes[i].val.Value, "SimpleListValue")
         /\ GraphTypes[i].val.Value.val # Nil
         /\ Is(GraphTypes[i].val.Value.val.Items, "Reference")
         /\ ~Resolves(GraphTypes[i].val.Value.val.Items.val)

\* the merged maps of the graph's group-versions
MergedOf(gv) == heap[GVToNode[gv].maps]

\* the name is declared as a terminal / as an alias in some merged node
DeclaredAnywhere(name) == \E gv \in DOMAIN GVToNode : name \in DOMAIN MergedOf(gv).Terminals

AliasAnywhere(name) == \E gv \in DOMAIN GVToNode : name \in DOMAIN MergedOf(gv).References

\* the terminal / the alias target declared for name in the merged graph
TerminalAnywhere(name) ==
    MergedOf(CHOOSE gv \in DOMAIN GVToNode : name \in DOMAIN MergedOf(gv).Terminals).Terminals[name]

TargetAnywhere(name) ==
    MergedOf(CHOOSE gv \in DOMAIN GVToNode : name \in DOMAIN MergedOf(gv).References).References[name]

RECURSIVE ChainEnd(_, _)
\* the final destination of the alias chain that starts at name
ChainEnd(name, seen) ==
    IF ~AliasAnywhere(name) \/ name \in seen THEN name
    ELSE ChainEnd(TargetAnywhere(name), seen \cup {name})

\* the merge is over without a diagnostic: the graph is what the checks see
Merged == pc = "refs" /\ diags = EmptyBag

\* the names the references of the graph ask for, in a present group-version
AskedNames ==
    LET refs == GraphReferences
    IN  {NameFromRef(refs[i]) :
            i \in {j \in 1..Len(refs) :
                     /\ refs[j].GroupVersion # Nil
                     /\ GVFromRef(refs[j].GroupVersion) \in DOMAIN GVToNode}}

\* TerminalFor answers for name as the alias chain through the whole merged
\* graph says
AnswersChain(name) ==
    LET t == TerminalFor(GVToNode, heap, Background, name)
    IN IF DeclaredAnywhere(ChainEnd(name, {}))
       THEN t.term = TerminalAnywhere(ChainEnd(name, {})) /\ t.errs = NoErr
       ELSE t.term = Nil /\ BagCount(t.errs, UnknownType) = 1

\* C2: for a name whose group-version is in the graph, TerminalFor follows the
\* alias chain and returns the terminal at its end whenever that terminal is
\* declared anywhere in the merged graph, also when the chain leads into
\* another group-version; it returns nil with "reference to unknown type" only
\* when the chain's final destination is declared nowhere.
TerminalForFollowsChains == Merged => \A name \in AskedNames : AnswersChain(name)

\* an alias of one group-version whose target is declared in another one, for
\* which TerminalFor returns nil
ChainLeavesGroupVersion ==
    /\ Merged
    /\ \E name \in AskedNames :
         /\ ChainEnd(name, {}).GroupVersion # name.GroupVersion
         /\ DeclaredAnywhere(ChainEnd(name, {}))
         /\ TerminalFor(GVToNode, heap, Background, name).term = Nil

\* the paths a file of the world imports from
ImportsFrom(file) ==
    IF file.form = "compiled"
    THEN IF file.partial = Nil THEN {}
         ELSE {file.partial.Dependencies[i].From : i \in 1..Len(file.partial.Dependencies)}
    ELSE IF file.ast.Imports = Nil THEN {}
    ELSE {t.Src : t \in file.ast.Imports.Types}

\* a and b are two files that import each other
ImportEachOther(a, b) ==
    /\ a # b
    /\ b \in ImportsFrom(world.files[a])
    /\ a \in ImportsFrom(world.files[b])

\* the path has a real node that holds the partial loaded for it
HasRealNode(path) ==
    /\ path \in DOMAIN PathToNode
    /\ PathToNode[path] # Nil
    /\ Len(loads[path]) = 1
    /\ PathToNode[path].Partial = loads[path][1].partial

DeclaredBy(path) ==
    LET gvs == PathToNode[path].Partial.GroupVersions
        decls == FlatSeq([i \in 1..Len(gvs) |-> DeclsOfGV(gvs[i])])
    IN {decls[i].from : i \in {j \in 1..Len(decls) : decls[j] # Nil}}

\* two different files of the graph declare a type of the same group-version
\* and fully qualified name
DeclareTheSame(p, q) ==
    /\ p # q
    /\ PathToNode[p] # Nil /\ PathToNode[q] # Nil
    /\ DeclaredBy(p) \cap DeclaredBy(q) # {}

\* MergeNodes has returned
MergeOver == pc \in {"refs", "fields", "subtypes", "return", "done"}

\* C4: when two different files contribute to one group-version and both
\* declare a type (terminal or alias) of the same fully qualified name,
\* MergeNodes records "type with this name already exists", whichever of the
\* two is merged first.
DuplicateReported ==
    \A p, q \in DOMAIN PathToNode :
        (MergeOver /\ DeclareTheSame(p, q)) => BagCount(diags, AlreadyExists) >= 1

\* both files declared the same name and the second root's file was merged first
DuplicateSecondFirst ==
    /\ MergeOver
    /\ {"a.kdl", "b.kdl"} \subseteq DOMAIN PathToNode
    /\ DeclareTheSame("a.kdl", "b.kdl")
    /\ world.roots = <<"a.kdl", "b.kdl">>
    /\ GVToNode[CoreV1].Sources = <<"b.kdl", "a.kdl">>
    /\ BagCount(diags, AlreadyExists) >= 1

\* the messages the checks of CheckAll record
CheckMessages == {UnknownGV, UnknownType, KeyNotPresent, MustBeStructs}

\* CheckAll has run all its checks: nothing was recorded before them
ChecksRan == pc \in {"return", "done"} /\ \A d \in BagToSet(diags) : d.msg \in CheckMessages

\* the list-maps of the graph: field types and wrapper bodies
GraphListMaps ==
    LET ts == SelectSeq(GraphTypes, LAMBDA t : Is(t, "ListMap")) IN [i \in 1..Len(ts) |-> ts[i].val]

\* the terminal the items of a list-map resolve to (Nil if none)
ItemTerminal(listMap) ==
    IF listMap.Items = Nil \/ listMap.Items.GroupVersion = Nil THEN Nil
    ELSE TerminalFor(GVToNode, heap, Background, NameFromRef(listMap.Items)).term

\* the list-map's items resolve to a terminal of the class
ItemsAre(listMap, class) == ItemTerminal(listMap) # Nil /\ ItemTerminal(listMap).class = class

\* the names of the fields of a struct
FieldNames(struct) == {struct.Fields[i].Name : i \in 1..Len(struct.Fields)}

\* the places where key k stands in the key_field of a list-map over a struct
\* that has no field k
MissingAt(k) ==
    {p \in UNION {{<<j, i>> : i \in DOMAIN GraphListMaps[j].KeyField} : j \in 1..Len(GraphListMaps)} :
        /\ ItemsAre(GraphListMaps[p[1]], "Struct")
        /\ GraphListMaps[p[1]].KeyField[p[2]] = k
        /\ k \notin FieldNames(ItemTerminal(GraphListMaps[p[1]]).body)}

\* the keys of the graph's list-maps
GraphKeys == UNION {Range(GraphListMaps[j].KeyField) : j \in 1..Len(GraphListMaps)}

\* C5: for the list-maps whose items resolve to a struct, the checker records
\* "key of list-map not present in item" for exactly the keys of key_field
\* that are no fields of the struct, and no list-map diagnostic when every key
\* is a field.
StructKeysChecked ==
    ChecksRan =>
      /\ \A k \in GraphKeys :
            NotedCount(diags, KeyNotPresent, "name", k) = Cardinality(MissingAt(k))
      /\ \A d \in BagToSet(diags) : d.msg = KeyNotPresent => d.note["name"] \in GraphKeys
      /\ (\A j \in 1..Len(GraphListMaps) :
             /\ ItemsAre(GraphListMaps[j], "Struct")
             /\ Range(GraphListMaps[j].KeyField) \subseteq FieldNames(ItemTerminal(GraphListMaps[j]).body))
         => BagCount(diags, KeyNotPresent) + BagCount(diags, MustBeStructs) = 0

\* a list-map over a struct with one key that is a field and one that is not,
\* which was reported once
OneKeyMissing ==
    /\ ChecksRan
    /\ \E j \in 1..Len(GraphListMaps) :
         /\ ItemsAre(GraphListMaps[j], "Struct")
         /\ GraphListMaps[j].KeyField = <<"name", "nope">>
    /\ BagCount(diags, KeyNotPresent) = 1
    /\ NotedCount(diags, KeyNotPresent, "name", "nope") = 1

\* C6: a list-map whose items resolve to a tagged union whose tag is the
\* list-map's single key is accepted without a diagnostic; over a union with
\* any other key set it gets exactly one "key of list-map not present in
\* item".
UnionListMapsChecked ==
    ChecksRan =>
      \A j \in 1..Len(GraphListMaps) :
         (ItemsAre(GraphListMaps[j], "Union") /\ ~ItemTerminal(GraphListMaps[j]).body.Untagged)
         => IF GraphListMaps[j].KeyField = <<ItemTerminal(GraphListMaps[j]).body.Tag>>
            THEN diags = EmptyBag
            ELSE BagCount(diags, KeyNotPresent) = 1

\* a list-map over a tagged union keyed by the union's tag, which was rejected
\* with "list-map items must be structs"
TaggedUnionRejected ==
    /\ ChecksRan
    /\ \E j \in 1..Len(GraphListMaps) :
         /\ ItemsAre(GraphListMaps[j], "Union")
         /\ GraphListMaps[j].KeyField = <<ItemTerminal(GraphListMaps[j]).body.Tag>>
    /\ BagCount(diags, MustBeStructs) = 1


\* the fields of the kinds of a source file, and of a partial, in order
KindFieldsOfAST(file) ==
    FlatSeq([g \in 1..Len(file.GroupVersions) |->
        FlatSeq([d \in 1..Len(file.GroupVersions[g].Decls) |->
            IF file.GroupVersions[g].Decls[d].decl = "Kind"
            THEN file.GroupVersions[g].Decls[d].Fields ELSE <<>>])])

KindFieldsOfIR(partial) ==
    FlatSeq([g \in 1..Len(partial.GroupVersions) |->
        FlatSeq([k \in 1..Len(partial.GroupVersions[g].Kinds) |->
            partial.GroupVersions[g].Kinds[k].Fields])])

\* the validation families and the message onlyConstrain has for each
Families == {"Number", "String", "List", "Objectish"}

OnlyMessage(family) ==
    CASE family = "Number" -> OnlyNumber
      [] family = "String" -> OnlyString
      [] family = "List" -> OnlyList
      [] family = "Objectish" -> OnlyObjectish

\* the field's modifiers lower without error to a primitive with a validates bag
ValidatedPrimitive(info) ==
    /\ ~info.panics /\ info.errs = NoErr
    /\ Is(info.val.Type, "PrimitiveType")
    /\ info.val.Validates # Nil

\* the families the bag of a validated primitive uses against its type
Disallowed(info) ==
    {f \in Families : info.val.Validates[f] # Nil /\ f # AllowedFor(info.val.Type.val.prim)}

\* the IR field is the primitive of info, with at most the constraint of the
\* family its type allows
EmittedWithout(field, info) ==
    /\ Is(field.Type, "Primitive")
    /\ field.Type.val.Type = info.val.Type.val.prim
    /\ LET c == field.Type.val.SpecificConstraints
       IN \/ c = Nil
          \/ /\ c.oneof = "NumericConstraints"
             /\ AllowedFor(info.val.Type.val.prim) = "Number"
             /\ c.val = info.val.Validates.Number
          \/ /\ c.oneof = "StringConstraints"
             /\ AllowedFor(info.val.Type.val.prim) = "String"
             /\ c.val = info.val.Validates.String

\* what lowering one kind field with name and modifiers must have produced in
\* the outcome out of loading its file
LoweredAsClaimed(out, field, emitted, info) ==
    ValidatedPrimitive(info) =>
      /\ \A f \in Families :
            NotedCount(out.errs, OnlyMessage(f), "name", field.Name)
              = IF f \in Disallowed(info) THEN 1 ELSE 0
      /\ emitted.Name = field.Name
      /\ EmittedWithout(emitted, info)

\* the loads of source files that got as far as lowering to IR
Lowerings ==
    {<<path, k>> \in (DOMAIN loads) \X (1..MaxRoots) :
        /\ k <= Len(loads[path])
        /\ world.files[path].form = "source"
        /\ ~loads[path][k].panics
        /\ loads[path][k].partial # EmptyPartial}

\* C7: lowering a field of primitive type whose validates bag uses a family
\* that its primitive does not allow records exactly one diagnostic per
\* disallowed family, and the field and its primitive are still emitted,
\* without the disallowed constraint.
DisallowedFamiliesReported ==
    \A l \in Lowerings :
        LET fields == KindFieldsOfAST(world.files[l[1]].ast)
            emitted == KindFieldsOfIR(loads[l[1]][l[2]].partial)
        IN /\ Len(emitted) = Len(fields)
           /\ \A i \in 1..Len(fields) :
                 LoweredAsClaimed(loads[l[1]][l[2]], fields[i], emitted[i],
                                  modifiersToKnown(Background, fields[i].Modifiers))

\* `int32 validates(max: 3, min-length: 2)` was lowered: one diagnostic for
\* the string family, the int32 emitted with its numeric constraint
Int32WithMinLength ==
    \E l \in Lowerings :
        LET out == loads[l[1]][l[2]]
            emitted == KindFieldsOfIR(out.partial)
        IN /\ NotedCount(out.errs, OnlyString, "name", "probe") = 1
           /\ BagCount(out.errs, OnlyString) = 1
           /\ \E i \in 1..Len(emitted) :
                 /\ emitted[i].Name = "probe"
                 /\ Is(emitted[i].Type, "Primitive")
                 /\ emitted[i].Type.val.Type = "LEGACYINT32"
                 /\ Is(emitted[i].Type.val.SpecificConstraints, "NumericConstraints")
                 /\ emitted[i].Type.val.SpecificConstraints.val # Nil
                 /\ emitted[i].Type.val.SpecificConstraints.val.Maximum = 3

\* the families of constraints a reference may carry when it resolves to term
AllowedOn(term) ==
    CASE term.class \in {"Struct", "Kind"} -> {"Obj"}
      [] term.class \in {"Union", "Enum"} -> {}
      [] term.class = "Wrapper" ->
           CASE term.body.Type.oneof = "PrimitiveAlias" ->
                  IF AllowedFor(term.body.Type.val.Type) = "Number" THEN {"Num"}
                  ELSE IF AllowedFor(term.body.Type.val.Type) = "String" THEN {"Str"}
                  ELSE {}
             [] term.body.Type.oneof \in {"List", "Set", "ListMap"} -> {"List"}
             [] term.body.Type.oneof = "PrimitiveMap" -> {"Obj"}

\* the references that are the type of a field or the target of a wrapper
TypeReferences ==
    LET ts == SelectSeq(GraphTypes, LAMBDA t : Is(t, "NamedType") \/ Is(t, "ReferenceAlias"))
    IN [i \in 1..Len(ts) |-> ts[i].val]

\* the reference carries constraints of a family its terminal does not allow
Mismatched(ref) ==
    /\ ref.Constraints # Nil
    /\ Resolves(ref)
    /\ ref.Constraints.oneof
         \notin AllowedOn(TerminalFor(GVToNode, heap, Background, NameFromRef(ref)).term)

\* C8: a compile that records no diagnostic never emits a reference (as a
\* field type or a wrapper target) that carries validates constraints of a
\* family not allowed for the class of the terminal it resolves to.
ReferenceConstraintsMatch ==
    Clean => \A i \in 1..Len(TypeReferences) : ~Mismatched(TypeReferences[i])

\* a clean compile that emitted numeric constraints on a reference to a struct
NumericOnStruct ==
    /\ Clean
    /\ \E i \in 1..Len(TypeReferences) :
         /\ Mismatched(TypeReferences[i])
         /\ TypeReferences[i].Constraints.oneof = "Num"
         /\ TerminalFor(GVToNode, heap, Background, NameFromRef(TypeReferences[i])).term.class = "Struct"

\* the unions of the graph
GraphUnions ==
    LET ts == SelectSeq(GraphTypes, LAMBDA t : Is(t, "Union")) IN [i \in 1..Len(ts) |-> ts[i].val]

\* C9: in every union of a compile that records no diagnostic, no variant is
\* optional or inline, and the tag of a tagged union is the name of none of
\* its variants.
UnionsWellFormed ==
    Clean => \A u \in 1..Len(GraphUnions) : \A v \in 1..Len(GraphUnions[u].Variants) :
                /\ ~GraphUnions[u].Variants[v].Optional
                /\ ~GraphUnions[u].Variants[v].Embedded
                /\ ~GraphUnions[u].Untagged => GraphUnions[u].Variants[v].Name # GraphUnions[u].Tag

\* a clean compile with a tagged union that has an optional inline variant
\* and a variant named as its tag
IllFormedUnion ==
    /\ Clean
    /\ \E u \in 1..Len(GraphUnions) :
         /\ ~GraphUnions[u].Untagged
         /\ \E v \in 1..Len(GraphUnions[u].Variants) :
               GraphUnions[u].Variants[v].Optional /\ GraphUnions[u].Variants[v].Embedded
         /\ \E v \in 1..Len(GraphUnions[u].Variants) :
               GraphUnions[u].Variants[v].Name = GraphUnions[u].Tag

\* the simple-maps of the graph
GraphSimpleMaps ==
    LET ts == SelectSeq(GraphTypes, LAMBDA t : Is(t, "PrimitiveMap")) IN [i \in 1..Len(ts) |-> ts[i].val]

\* the terminal is a wrapper of a string-ish primitive
StringIsh(term) ==
    /\ term # Nil /\ term.class = "Wrapper"
    /\ Is(term.body.Type, "PrimitiveAlias")
    /\ AllowedFor(term.body.Type.val.Type) = "String"

\* the key is a string-ish primitive or a reference that resolves to one
KeyIsStringIsh(map) ==
    \/ Is(map.Key, "PrimitiveKey") /\ AllowedFor(map.Key.val.Type) = "String"
    \/ /\ Is(map.Key, "ReferenceKey")
       /\ StringIsh(TerminalFor(GVToNode, heap, Background, NameFromRef(map.Key.val)).term)

\* the value is a primitive, a reference or a list of primitives
ValueIsSimple(map) ==
    \/ Is(map.Value, "PrimitiveValue")
    \/ Is(map.Value, "ReferenceValue")
    \/ /\ Is(map.Value, "SimpleListValue")
       /\ map.Value.val # Nil
       /\ Is(map.Value.val.Items, "Primitive")

\* C10: in every simple-map of a compile that records no diagnostic, the key
\* is a string-ish primitive (or a reference that resolves to one) and the
\* value is a primitive, a reference or a list of primitives.
SimpleMapsWellFormed ==
    Clean => \A i \in 1..Len(GraphSimpleMaps) :
                KeyIsStringIsh(GraphSimpleMaps[i]) /\ ValueIsSimple(GraphSimpleMaps[i])

\* a clean compile with a simple-map keyed by bool
BoolKeyedMap ==
    /\ Clean
    /\ \E i \in 1..Len(GraphSimpleMaps) :
         /\ Is(GraphSimpleMaps[i].Key, "PrimitiveKey")
         /\ GraphSimpleMaps[i].Key.val.Type = "BOOL"


\* the source files Config.Load has loaded so far
LoadedSources ==
    {path \in DOMAIN loads : loads[path] # <<>> /\ world.files[path].form = "source"}

RECURSIVE ModifiersOfDecl(_)
\* the modifier lists of a declaration: of its fields or variants, of the
\* newtype itself, and of the declarations nested in it
ModifiersOfDecl(decl) ==
    LET lists(fields) == [i \in 1..Len(fields) |-> fields[i].Modifiers]
        nested(subtypes) == FlatSeq([i \in 1..Len(subtypes) |-> ModifiersOfDecl(subtypes[i])])
    IN IF decl.decl = "Kind" THEN lists(decl.Fields) \o nested(decl.Subtypes)
       ELSE CASE decl.Body.body = "Struct" -> lists(decl.Body.Fields) \o nested(decl.Body.Subtypes)
              [] decl.Body.body = "Union" -> lists(decl.Body.Variants) \o nested(decl.Body.Subtypes)
              [] decl.Body.body = "Newtype" -> <<decl.Body.Modifiers>>
              [] OTHER -> <<>>

\* every field and newtype modifier list of a source file
ModifiersOfFile(file) ==
    FlatSeq([g \in 1..Len(file.GroupVersions) |->
        FlatSeq([d \in 1..Len(file.GroupVersions[g].Decls) |->
            ModifiersOfDecl(file.GroupVersions[g].Decls[d])])])

\* modifier lowering of the list neither panicked nor recorded a diagnostic
LowersQuietly(mods) ==
    /\ ~modifiersToKnown(Background, mods).panics
    /\ modifiersToKnown(Background, mods).errs = NoErr

\* C11: after modifier lowering of a field or newtype modifier list that
\* recorded no diagnostic, the resolved type info holds a core type: a list
\* without a type-producing modifier is reported, never passed on without type.
EveryListHasOneType ==
    \A path \in LoadedSources :
        \A i \in 1..Len(ModifiersOfFile(world.files[path].ast)) :
            LowersQuietly(ModifiersOfFile(world.files[path].ast)[i])
            => modifiersToKnown(Background, ModifiersOfFile(world.files[path].ast)[i]).val.Type # Nil

\* the field `probe: optional` was lowered without a diagnostic and without a
\* type, and toir.Field panicked on it
TypelessFieldLowered ==
    /\ pc = "panic" /\ diags = EmptyBag
    /\ \E path \in LoadedSources :
         \E i \in 1..Len(ModifiersOfFile(world.files[path].ast)) :
            /\ ModifiersOfFile(world.files[path].ast)[i] = <<Key("optional")>>
            /\ LowersQuietly(<<Key("optional")>>)
            /\ modifiersToKnown(Background, <<Key("optional")>>).val.Type = Nil


\* the modifier sets the core type: a primitive, a container or a reference
TypeProducing(mod) ==
    \/ mod.mod = "Ref"
    \/ keyToPrimitive(mod.Key) # Nil
    \/ mod.Key \in {"list", "list-map", "set", "simple-map"}

\* how many modifiers of the list satisfy Test
Occurrences(mods, Test(_)) == Len(SelectSeq(mods, Test))

\* the diagnostic for a repeated behaviour modifier
TwiceMessage(key) == "cannot set " \o key \o " twice in the same modifier list"

\* lowering the list records msg exactly when the modifiers that satisfy Test
\* are more than one (if lowering panics on the way, it may not get that far)
ReportedIffRepeated(mods, msg, Test(_)) ==
    /\ BagCount(modifiersToKnown(Background, mods).errs, msg) > 0 => Occurrences(mods, Test) > 1
    /\ (Occurrences(mods, Test) > 1 /\ ~modifiersToKnown(Background, mods).panics)
       => BagCount(modifiersToKnown(Background, mods).errs, msg) > 0

\* the claim for one modifier list
DuplicatesReportedIn(mods) ==
    /\ ReportedIffRepeated(mods, TwoTypes, TypeProducing)
    /\ \A key \in {"optional", "create-only", "validates"} :
          ReportedIffRepeated(mods, TwiceMessage(key), LAMBDA mod : mod.mod = "Keyish" /\ mod.Key = key)

Scope(path, names) == [path |-> path, names |-> names]

DeclaredNames(decls) == {decls[i].Name : i \in 1..Len(decls)}

\* the modifier list is one unqualified reference (a bare name or a path
\* without group-version), possibly with behaviour modifiers after it
WritesReference(mods) ==
    /\ mods # <<>>
    /\ mods[1].mod = "Ref" /\ mods[1].GroupVersion = Nil
    /\ Occurrences(mods, TypeProducing) = 1

\* the reference sites among fields, with the type the resolver left on each
FieldSites(gv, scopes, fields, rfields) ==
    FlatSeq([i \in 1..Len(fields) |->
        IF WritesReference(fields[i].Modifiers)
        THEN <<[gv |-> gv, scopes |-> scopes, written |-> fields[i].Modifiers[1].Name,
                resolved |-> rfields[i].ResolvedType.Type]>>
        ELSE <<>>])

RECURSIVE SitesOfDecl(_, _, _, _)
\* the reference sites of a declaration and of those nested in it: decl as
\* written under scopes (outermost first), rdecl as ResolveNested left it
SitesOfDecl(gv, scopes, decl, rdecl) ==
    LET nestedIn == IF decl.decl = "Kind" THEN decl.Subtypes ELSE SubtypesOfBody(decl.Body)
        rnestedIn == IF decl.decl = "Kind" THEN rdecl.Subtypes ELSE SubtypesOfBody(rdecl.Body)
        inner == Append(scopes, Scope(scopes[Len(scopes)].path \o <<decl.Name>>,
                                      DeclaredNames(nestedIn)))
        own == IF decl.decl = "Kind" THEN FieldSites(gv, inner, decl.Fields, rdecl.Fields)
               ELSE CASE decl.Body.body = "Struct" ->
                           FieldSites(gv, inner, decl.Body.Fields, rdecl.Body.Fields)
                      [] decl.Body.body = "Union" ->
                           FieldSites(gv, inner, decl.Body.Variants, rdecl.Body.Variants)
                      [] decl.Body.body = "Newtype" ->
                           FieldSites(gv, inner, <<decl.Body>>, <<rdecl.Body>>)
                      [] OTHER -> <<>>
    IN own \o FlatSeq([i \in 1..Len(nestedIn) |-> SitesOfDecl(gv, inner, nestedIn[i], rnestedIn[i])])

\* the reference sites of a source file
SitesOfFile(file, rfile) ==
    FlatSeq([g \in 1..Len(file.GroupVersions) |->
        FlatSeq([d \in 1..Len(file.GroupVersions[g].Decls) |->
            SitesOfDecl([Group |-> file.GroupVersions[g].Group, Version |-> file.GroupVersions[g].Version],
                        <<Scope(<<>>, DeclaredNames(file.GroupVersions[g].Decls))>>,
                        file.GroupVersions[g].Decls[d], rfile.GroupVersions[g].Decls[d])])])

\* the enclosing scopes of the site that declare the leading name written
Declaring(site) == {k \in 1..Len(site.scopes) : site.written[1] \in site.scopes[k].names}

\* the innermost of them
Innermost(site) == CHOOSE k \in Declaring(site) : \A j \in Declaring(site) : j <= k

\* the reference the site must carry: the declaration found in the innermost
\* declaring scope, by its full name
FirstHit(site) ==
    OneOf("RefType", IRReference(site.gv, site.scopes[Innermost(site)].path \o site.written))

\* what the claim says of the sites of one file, resolved with diagnostics errs
ResolvedOutward(sites, errs) ==
    /\ \A i \in 1..Len(sites) : Declaring(sites[i]) # {} => sites[i].resolved = FirstHit(sites[i])
    /\ \A i \in 1..Len(sites) :
          NotedCount(errs, Unresolvable, "identifier", sites[i].written)
            = Len(SelectSeq(sites, LAMBDA s : s.written = sites[i].written /\ Declaring(s) = {}))

\* the loaded source files on which ResolveNested returns
ResolvedSources == {path \in LoadedSources : ~ResolveNested(Background, world.files[path].ast).panics}

\* C13: a reference written as a bare name or an unqualified path is resolved
\* by looking its leading name up in the enclosing scopes, innermost first,
\* and carries the full name of the first declaration found; when no scope
\* declares the name, exactly one "unresolvable identifier" is recorded there.
ReferencesResolveOutward ==
    \A path \in ResolvedSources :
        ResolvedOutward(SitesOfFile(world.files[path].ast,
                                    ResolveNested(Background, world.files[path].ast).val),
                        ResolveNested(Background, world.files[path].ast).errs)

\* a loaded file with the path `Inner::Deep` written in kind Pod, where Inner
\* is declared: the reference was left as written
PathLeftAsWritten ==
    \E path \in ResolvedSources :
        LET sites == SitesOfFile(world.files[path].ast,
                                 ResolveNested(Background, world.files[path].ast).val)
        IN \E i \in 1..Len(sites) :
              /\ sites[i].written = <<"Inner", "Deep">>
              /\ Declaring(sites[i]) # {}
              /\ FirstHit(sites[i]).val.Name = <<"Pod", "Inner", "Deep">>
              /\ sites[i].resolved = OneOf("RefType", IRReference(sites[i].gv, <<"Inner", "Deep">>))


RECURSIVE TypeNamesUnder(_, _)
\* the full names of the subtypes declared in a list under the declaration
\* named path, each followed by those nested in it: every name is the names
\* of the enclosing declarations and its own, outermost first
TypeNamesUnder(path, subtypes) ==
    FlatSeq([i \in 1..Len(subtypes) |->
        <<path \o <<subtypes[i].Name>>>>
        \o TypeNamesUnder(path \o <<subtypes[i].Name>>, SubtypesOfBody(subtypes[i].Body))])

\* the full names a group-version's subtypes must be emitted under, in the
\* order of their declaration
TypeNamesOf(gv) ==
    FlatSeq([d \in 1..Len(gv.Decls) |->
        IF gv.Decls[d].decl = "Kind"
        THEN TypeNamesUnder(<<gv.Decls[d].Name>>, gv.Decls[d].Subtypes)
        ELSE TypeNamesUnder(<<>>, <<gv.Decls[d]>>)])

\* the sites of fields (or of the newtype itself) that write a bare name
NamedSites(scopes, fields, alias) ==
    FlatSeq([i \in 1..Len(fields) |->
        IF WritesReference(fields[i].Modifiers) /\ Len(fields[i].Modifiers[1].Name) = 1
        THEN <<[scopes |-> scopes, written |-> fields[i].Modifiers[1].Name,
                alias |-> alias, field |-> IF alias THEN "" ELSE fields[i].Name]>>
        ELSE <<>>])

RECURSIVE NamedSitesOfDecl(_, _)
\* the bare-name sites of a declaration written under scopes and of those
\* nested in it
NamedSitesOfDecl(scopes, decl) ==
    LET nestedIn == IF decl.decl = "Kind" THEN decl.Subtypes ELSE SubtypesOfBody(decl.Body)
        inner == Append(scopes, Scope(scopes[Len(scopes)].path \o <<decl.Name>>,
                                      DeclaredNames(nestedIn)))
        own == IF decl.decl = "Kind" THEN NamedSites(inner, decl.Fields, FALSE)
               ELSE CASE decl.Body.body = "Struct" -> NamedSites(inner, decl.Body.Fields, FALSE)
                      [] decl.Body.body = "Union" -> NamedSites(inner, decl.Body.Variants, FALSE)
                      [] decl.Body.body = "Newtype" -> NamedSites(inner, <<decl.Body>>, TRUE)
                      [] OTHER -> <<>>
    IN own \o FlatSeq([i \in 1..Len(nestedIn) |-> NamedSitesOfDecl(inner, nestedIn[i])])

NamedSitesOf(gv) ==
    FlatSeq([d \in 1..Len(gv.Decls) |->
        NamedSitesOfDecl(<<Scope(<<>>, DeclaredNames(gv.Decls))>>, gv.Decls[d])])

\* the types of the IR fields called field of the kind or subtype emitted
\* under the name owner, or the body of the wrapper emitted under that name
EmittedTypes(irGV, owner, field, alias) ==
    LET fieldTypes(fields) ==
            LET fs == SelectSeq(fields, LAMBDA f : f.Name = field)
            IN [i \in 1..Len(fs) |-> fs[i].Type]
        kinds == SelectSeq(irGV.Kinds, LAMBDA k : k.Name = owner)
        types == SelectSeq(irGV.Types, LAMBDA t : t.Name = owner)
    IN FlatSeq([i \in 1..Len(kinds) |-> fieldTypes(kinds[i].Fields)])
       \o FlatSeq([i \in 1..Len(types) |->
              IF alias THEN <<types[i].Type>>
              ELSE IF Is(types[i].Type, "Struct") THEN fieldTypes(types[i].Type.val.Fields)
              ELSE IF Is(types[i].Type, "Union") THEN fieldTypes(types[i].Type.val.Variants)
              ELSE <<>>])

\* the site's reference was emitted, under the full name of the declaration
\* found in the innermost scope that declares the name written
CarriesFullName(irGV, site) ==
    LET emitted == EmittedTypes(irGV, site.scopes[Len(site.scopes)].path, site.field, site.alias)
    IN /\ Len(emitted) = 1
       /\ emitted[1].oneof \in {"NamedType", "ReferenceAlias"}
       /\ emitted[1].val.Name = site.scopes[Innermost(site)].path \o site.written
       /\ emitted[1].val.Name \in Range([i \in 1..Len(irGV.Types) |-> irGV.Types[i].Name])
                                  \cup Range([i \in 1..Len(irGV.Kinds) |-> irGV.Kinds[i].Name])

\* a group-version as written and as emitted: the names of the declarations
\* and of the references to them
FullNamesSurvive(gv, irGV) ==
    /\ [i \in 1..Len(irGV.Types) |-> irGV.Types[i].Name] = TypeNamesOf(gv)
    /\ [i \in 1..Len(irGV.Kinds) |-> irGV.Kinds[i].Name]
         = FlatSeq([d \in 1..Len(gv.Decls) |->
               IF gv.Decls[d].decl = "Kind" THEN <<<<gv.Decls[d].Name>>>> ELSE <<>>])
    /\ \A i \in 1..Len(NamedSitesOf(gv)) :
          Declaring(NamedSitesOf(gv)[i]) # {} => CarriesFullName(irGV, NamedSitesOf(gv)[i])

\* C14: every nested declaration is emitted in the IR under the names of all
\* its enclosing declarations and its own joined with "::", at any depth and
\* under kinds as under subtypes, and every reference that resolves to it
\* carries exactly that name.
NestedNamesQualified ==
    \A l \in Lowerings :
        /\ Len(loads[l[1]][l[2]].partial.GroupVersions) = Len(world.files[l[1]].ast.GroupVersions)
        /\ \A g \in 1..Len(world.files[l[1]].ast.GroupVersions) :
              FullNamesSurvive(world.files[l[1]].ast.GroupVersions[g],
                               loads[l[1]][l[2]].partial.GroupVersions[g])

\* a lowered file that declares Deep under Inner under kind Pod and Leaf under
\* In under struct Outer: both were emitted three segments long, and the bare
\* name Deep written in Inner was emitted as Pod::Inner::Deep
DeepNamesEmitted ==
    \E l \in Lowerings :
        \E g \in 1..Len(loads[l[1]][l[2]].partial.GroupVersions) :
            LET irGV == loads[l[1]][l[2]].partial.GroupVersions[g]
            IN /\ \E i \in 1..Len(irGV.Types) : irGV.Types[i].Name = <<"Outer", "In", "Leaf">>
               /\ \E i \in 1..Len(irGV.Types) :
                     /\ irGV.Types[i].Name = <<"Pod", "Inner">>
                     /\ Is(irGV.Types[i].Type, "Struct")
                     /\ \E f \in 1..Len(irGV.Types[i].Type.val.Fields) :
                           /\ irGV.Types[i].Type.val.Fields[f].Name = "deep"
                           /\ Is(irGV.Types[i].Type.val.Fields[f].Type, "NamedType")
                           /\ irGV.Types[i].Type.val.Fields[f].Type.val.Name = <<"Pod", "Inner", "Deep">>


(***************************************************************************)
(* The parser: parser.Parser over the tokens of a lexer.Lexer.  A parse    *)
(* function is the list of what it does, in order; `calls` holds what the  *)
(* functions in progress have left to do.                                  *)
(***************************************************************************)

\* lexer.EOF, the Type of every token the Lexer yields at and after the end
EOF == "eof"

\* the token Types of package lexer other than EOF and Unexpected, and the
\* punctuation runes the parser looks for
TokenTypes ==
    { "fieldOrKey", "key", "field", "type", "number", "string", "fieldPath",
      "comment", "doc", "qualPath", "unqualPath", "markerPath", "importName",
      "import", "types", "markers", "from", "group-version", "kind", "struct",
      "union", "enum", "newtype", "marker", "true", "false",
      "{", "}", "(", ")", "[", "]", ":", ",", ";", "@" }

\* p.expect / p.expectWithText / p.parseKey: take the next token if its Type
\* is one of types, else markErrExp
Expect(types) == [op |-> "expect", types |-> types]

\* p.expectOrRecover(ctx, typ)
ExpectOrRecover(typ) == [op |-> "expectOrRecover", typ |-> typ]

\* the loop of p.recoverTill(ctx, typ)
RecoverTill(typ) == [op |-> "recoverTill", typ |-> typ]

\* the loop of p.recoverTillDeclEnd(ctx), with its local blockCnt
RecoverTillDeclEnd(blockCnt) == [op |-> "recoverTillDeclEnd", blockCnt |-> blockCnt]

\* p.until(term, body) and p.untilEither(term1, term2, body)
Until(terms, body) == [op |-> "until", terms |-> terms, body |-> body]

\* for tok := p.peek(); tok.Type == typ; tok = p.peek() { body }
While(typ, body) == [op |-> "while", typ |-> typ, body |-> body]

\* one case of a switch over p.peek().Type
Case(types, code) == [on |-> types, code |-> code]

\* switch p.peek().Type { cases; default }, and if p.peek().Type ==/!= ...
Switch(cases, default) == [op |-> "switch", cases |-> cases, default |-> default]

\* a call of the parse function fn
Call(fn) == [op |-> "call", fn |-> fn]

\* p.markErrExp(ctx, p.peek(), exp...) in the default of a switch
MarkErrExp(exp) == [op |-> "markErrExp", types |-> exp]

\* p.markErr(ctx, tok) and p.markErrAt(ctx, span)
MarkErr == [op |-> "markErr"]

\* p.next(ctx) on a token the switch before it has looked at
Advance == [op |-> "next"]

\* what a function does with the "" that expectWithText returns on a mismatch
IfMismatch(code) == [op |-> "ifMismatch", code |-> code]

\* a branch on the text of the token just taken; one code per outcome
ByText(codes) == [op |-> "byText", codes |-> codes]

\* return of parseValue: nil or an ast.Value
Returns(nilVal) == [op |-> "return", nilVal |-> nilVal]

\* val.SpanEnd() on what parseValue returned
SpanEnd == [op |-> "spanEnd"]

\* an index out of range or a nil dereference: the goroutine panics
GoPanic == [op |-> "panic"]

\* the Params handed to parseParamList, none present yet
NewParams == [op |-> "newParams"]

\* defsIdx[key]: the Param the key just parsed names, the first for any other
ParamIndex(n) == [op |-> "paramIndex", n |-> n]

\* defs[defsIdx[key]].parse(ctx, p)
ParseParam(kinds) == [op |-> "parseParam", kinds |-> kinds]

\* p.requiredArgs over n Params
RequiredArgs(n) == [op |-> "requiredArgs", n |-> n]

\* StringParam.parse
StringParam == <<Call("parseString")>>

\* BoolParam.parse: looks at the token and leaves it where it is
BoolParam == <<Switch(<<Case({"true", "false"}, <<>>)>>, <<MarkErrExp({"true", "false"})>>)>>

\* if p.peek().Type != typ { code }
Unless(typ, code) == Switch(<<Case({typ}, <<>>)>>, code)

\* p.parseKey
parseKey == <<Expect({"fieldOrKey", "key"})>>

\* the text of a String is decoded, when a String was found
DecodeString == [op |-> "decodeString"]

\* the loop of parseString
ParseStringLoop == [op |-> "parseStringLoop"]

\* p.parseString
parseString == <<Expect({"string"}), IfMismatch(<<MarkErr>>), DecodeString>>

\* if p.peek().Type == '(' { params := p.parseAnyParamList(...) }
maybeParams == Switch(<<Case({"("}, <<Call("parseAnyParamList")>>)>>, <<>>)

\* p.parseValue
parseValue ==
    <<Switch(<<
        Case({"string"}, <<Call("parseString"), Returns(FALSE)>>),
        Case({"number"}, <<Expect({"number"}),
                           ByText(<< <<Returns(FALSE)>>, <<MarkErr, Returns(TRUE)>> >>)>>),
        Case({"true", "false"}, <<Advance, Returns(FALSE)>>),
        Case({"{"}, <<Expect({"{"}),
                      Until({"}"}, <<Call("parseKey"), Expect({":"}), Call("parseValue"), SpanEnd>>),
                      Expect({"]"}), Returns(FALSE)>>),
        Case({"["}, <<Expect({"["}),
                      Until({"]"}, <<Call("parseValue"), Unless("]", <<Expect({","})>>)>>),
                      Expect({"]"}), Returns(FALSE)>>),
        Case({"fieldPath"}, <<Expect({"fieldPath"}), Returns(FALSE)>>),
        Case({"type"}, <<Expect({"type"}), Returns(FALSE)>>),
        Case({"fieldOrKey"}, <<Expect({"fieldOrKey"}), maybeParams, Returns(FALSE)>>),
        Case({"key"}, <<Expect({"key"}), maybeParams, Returns(FALSE)>>),
        Case({"qualPath"}, <<Call("parseQualPath"), Returns(FALSE)>>),
        Case({"unqualPath"}, <<Call("parseUnqualPath"), Returns(FALSE)>>)
      >>,
      <<MarkErrExp({"string", "number", "true", "false", "{", "[", "fieldPath", "type",
                    "qualPath", "unqualPath"}),
        Returns(TRUE)>>)>>

\* p.parseMarkerImports
parseMarkerImports ==
    <<Expect({"markers"}), Expect({"("}),
      Until({")"}, <<Call("parseKey"), Expect({"from"}), Call("parseString"),
                     ExpectOrRecover(";")>>),
      ExpectOrRecover(")")>>

\* p.parseImportGV: slashParts[1] of the "" a mismatch leaves is out of range
parseImportGV == <<Expect({"importName"}), IfMismatch(<<GoPanic>>)>>

\* p.parseTypeImports
parseTypeImports ==
    <<Expect({"types"}), Expect({"("}),
      Until({")"}, <<Expect({"{"}),
                     Until({"}"}, <<Call("parseImportGV"), Unless("}", <<Expect({","})>>)>>),
                     Expect({"}"}), Expect({"from"}), Call("parseString"),
                     ExpectOrRecover(";")>>),
      ExpectOrRecover(")")>>

\* p.parseImports
parseImports ==
    <<Expect({"import"}),
      Switch(<<
        Case({"("}, <<Expect({"("}), Call("parseTypeImports"), Call("parseMarkerImports"),
                      ExpectOrRecover(")")>>),
        Case({"markers"}, <<Call("parseMarkerImports")>>),
        Case({"types"}, <<Call("parseTypeImports")>>)
      >>,
      <<MarkErrExp({"(", "markers", "types"})>>)>>

\* p.parseParamList(ctx, defs...), kinds the kinds of defs
parseParamList(kinds) ==
    <<NewParams, Expect({"("}),
      Until({")"}, <<Call("parseKey"), ParamIndex(Len(kinds)), Expect({":"}),
                     ParseParam(kinds), Unless(")", <<ExpectOrRecover(",")>>)>>),
      ExpectOrRecover(")")>>

\* p.parseAnyParamList
parseAnyParamList ==
    <<Expect({"("}),
      Until({")"}, <<Call("parseKey"), Expect({":"}), Call("parseValue"),
                     Switch(<<Case({")"}, <<SpanEnd>>)>>, <<ExpectOrRecover(",")>>)>>),
      ExpectOrRecover(")")>>

\* p.maybeDocs; a doc comment without a space after the slashes is an error
maybeDocs == <<While("doc", <<Expect({"doc"}), ByText(<< <<>>, <<MarkErr>> >>)>>)>>

\* p.maybeMarkers
maybeMarkers ==
    <<While("@", <<Expect({"@"}),
                   Switch(<<Case({"markerPath"}, <<Expect({"markerPath"}), maybeParams>>),
                            Case({"fieldOrKey"}, <<Expect({"fieldOrKey"}), maybeParams>>),
                            Case({"key"}, <<Expect({"key"}), maybeParams>>)>>,
                          <<MarkErrExp({"markerPath", "key"})>>)>>)>>

\* p.maybeDocsMarkers
maybeDocsMarkers == <<Call("maybeDocs"), Call("maybeMarkers")>>

\* p.parseGroupVersion
parseGroupVersion ==
    <<Call("maybeDocsMarkers"), Expect({"group-version"})>>
    \o parseParamList(<<"string", "string">>)
    \o <<RequiredArgs(2), Expect({"{"}),
         Until({"}"}, <<Call("parseDecl")>>),
         ExpectOrRecover("}")>>

\* p.parseDecl
parseDecl ==
    <<Call("maybeDocsMarkers"),
      Switch(<<Case({"kind"}, <<Call("parseKindDeclRest")>>)>>,
             <<Call("parseSubtypeDeclRest")>>)>>

\* p.parseSubtypeDeclRest
parseSubtypeDeclRest ==
    <<Switch(<<
        Case({"struct"}, <<Advance, Expect({"type"}), Call("parseFieldBlock")>>),
        Case({"union"}, <<Advance,
                          Switch(<<Case({"("}, parseParamList(<<"string", "bool">>))>>, <<>>),
                          Expect({"type"}), Call("parseFieldBlock")>>),
        Case({"enum"}, <<Advance, Expect({"type"}), Call("parseEnumBlock")>>),
        Case({"newtype"}, <<Advance, Expect({"type"}), Call("parseNewtypeRest")>>)
      >>,
      <<MarkErrExp({"struct", "enum", "union", "newtype"}), RecoverTillDeclEnd(0)>>)>>

\* p.parseQualPath, called on a QualPath only
parseQualPath == <<Expect({"qualPath"}), IfMismatch(<<GoPanic>>)>>

\* p.parseUnqualPath
parseUnqualPath == <<Expect({"unqualPath"})>>

\* p.parseModifier
parseModifier ==
    <<Switch(<<
        Case({"fieldOrKey", "key"}, <<Call("parseKey"), maybeParams>>),
        Case({"type"}, <<Expect({"type"})>>),
        Case({"qualPath"}, <<Call("parseQualPath")>>),
        Case({"unqualPath"}, <<Call("parseUnqualPath")>>)
      >>,
      <<MarkErrExp({"key", "type", "qualPath", "unqualPath"})>>)>>

\* p.parseNewtypeRest
parseNewtypeRest ==
    <<Expect({":"}), Until({";"}, <<Call("parseModifier")>>), ExpectOrRecover(";")>>

\* p.parseKindDeclRest
parseKindDeclRest == <<Expect({"kind"}), Expect({"type"}), Call("parseFieldBlock")>>

\* p.parseFieldBlock
parseFieldBlock ==
    <<Expect({"{"}),
      Until({"}"}, <<Call("maybeDocsMarkers"),
                     Switch(<<Case({"fieldOrKey", "field"}, <<Call("parseField")>>)>>,
                            <<Call("parseSubtypeDeclRest")>>)>>),
      ExpectOrRecover("}")>>

\* p.parseField
parseField ==
    <<Switch(<<Case({"field"}, <<Expect({"field"})>>),
               Case({"fieldOrKey"}, <<Expect({"fieldOrKey"})>>)>>,
             <<MarkErrExp({"field"})>>),
      Expect({":"}),
      Until({",", "}"}, <<Call("parseModifier")>>),
      ExpectOrRecover(",")>>

\* p.parseEnumBlock
parseEnumBlock ==
    <<Expect({"{"}),
      Until({"}"}, <<Call("maybeDocsMarkers"), Expect({"type"}), Unless("}", <<Expect({","})>>)>>),
      ExpectOrRecover("}")>>

\* p.Parse
Parse ==
    <<Switch(<<Case({"import"}, <<Call("parseImports")>>)>>, <<>>),
      Until({}, <<Call("parseGroupVersion")>>)>>

\* the parse functions by name
Body(fn) ==
    CASE fn = "parseKey" -> parseKey
      [] fn = "parseString" -> parseString
      [] fn = "parseValue" -> parseValue
      [] fn = "parseMarkerImports" -> parseMarkerImports
      [] fn = "parseImportGV" -> parseImportGV
      [] fn = "parseTypeImports" -> parseTypeImports
      [] fn = "parseImports" -> parseImports
      [] fn = "parseAnyParamList" -> parseAnyParamList
      [] fn = "maybeDocs" -> maybeDocs
      [] fn = "maybeMarkers" -> maybeMarkers
      [] fn = "maybeDocsMarkers" -> maybeDocsMarkers
      [] fn = "parseGroupVersion" -> parseGroupVersion
      [] fn = "parseDecl" -> parseDecl
      [] fn = "parseSubtypeDeclRest" -> parseSubtypeDeclRest
      [] fn = "parseQualPath" -> parseQualPath
      [] fn = "parseUnqualPath" -> parseUnqualPath
      [] fn = "parseModifier" -> parseModifier
      [] fn = "parseNewtypeRest" -> parseNewtypeRest
      [] fn = "parseKindDeclRest" -> parseKindDeclRest
      [] fn = "parseFieldBlock" -> parseFieldBlock
      [] fn = "parseField" -> parseField
      [] fn = "parseEnumBlock" -> parseEnumBlock


\* p.peek().Type
Peek == IF nextTok > Len(input) THEN EOF ELSE input[nextTok]

\* the position of the first token at or after pos that is no Comment
RECURSIVE skipComments(_, _)
skipComments(toks, pos) ==
    IF pos <= Len(toks) /\ toks[pos] = "comment" THEN skipComments(toks, pos + 1) ELSE pos

\* p.next: nextTok becomes the Lexer's next token that is no Comment; at the
\* end the Lexer yields EOF again
next(toks, pos) == IF pos > Len(toks) THEN pos ELSE skipComments(toks, pos + 1)

\* the diagnostic of markErrExp and of markErr (which expects nothing)
Mismatch(found, exp) == [found |-> found, expected |-> exp]

\* markErrExp that reports and stays where it is
markErrExpStuck(toks, pos, errs, exp) ==
    [nextTok |-> pos,
     reported |-> Append(errs, Mismatch(IF pos > Len(toks) THEN EOF ELSE toks[pos], exp))]

\* p.markErrExp: report, then p.next "always make progress"
markErrExp(toks, pos, errs, exp) ==
    [nextTok |-> next(toks, pos),
     reported |-> Append(errs, Mismatch(IF pos > Len(toks) THEN EOF ELSE toks[pos], exp))]

\* the diagnostics kept per run
ReportLimit == 4 * (Len(input) + 2)

\* room for n more diagnostics
CanReport(n) == Len(reported) + n <= ReportLimit

\* the parser is at an instruction op
At(op) == calls # <<>> /\ Head(calls).op = op

\* one step of the Parser: the rest is as it was
Goes(pos, errs, rest, r, rec) ==
    /\ nextTok' = pos
    /\ reported' = errs
    /\ calls' = rest
    /\ regs' = r
    /\ recovered' = rec
    /\ UNCHANGED <<input, compileVars, markerVars, lexerVars>>

\* the function goes on with code
Runs(code) == Goes(nextTok, reported, code \o Tail(calls), regs, recovered)

\* the Type of the zero Token
ZeroType == "0"

\* p.expect, p.expectWithText
expect ==
    /\ At("expect")
    /\ LET i == Head(calls)
       IN IF Peek \in i.types
          THEN Goes(next(input, nextTok), reported, Tail(calls),
                    [regs EXCEPT !.matched = TRUE], recovered)
          ELSE /\ CanReport(1)
               /\ LET m == markErrExp(input, nextTok, reported, i.types)
                  IN Goes(m.nextTok, m.reported, Tail(calls),
                          [regs EXCEPT !.matched = FALSE], recovered)

\* a recovery that has begun at the token at, with before diagnostics recorded
Recovery(typ, at, before) ==
    [typ |-> typ, at |-> at, before |-> before, upto |-> at, after |-> before, done |-> FALSE]

\* p.expectOrRecover up to the loop of recoverTill
expectOrRecover ==
    /\ At("expectOrRecover")
    /\ LET i == Head(calls)
       IN IF Peek = i.typ
          THEN Goes(next(input, nextTok), reported, Tail(calls),
                    [regs EXCEPT !.matched = TRUE], recovered)
          ELSE /\ CanReport(1)
               /\ LET m == markErrExp(input, nextTok, reported, {i.typ})
                  IN Goes(m.nextTok, m.reported, <<RecoverTill(i.typ)>> \o Tail(calls),
                          [regs EXCEPT !.matched = FALSE],
                          <<Recovery(i.typ, nextTok, Len(reported))>>)

\* one turn of the loop of p.recoverTill, and what follows the loop: the
\* loop's tok shadows the function's, which stays the zero Token
recoverTill ==
    /\ At("recoverTill")
    /\ LET i == Head(calls)
           tok == Peek
           pos == next(input, nextTok)
           outer == ZeroType
           errs == IF outer = EOF THEN Append(reported, Mismatch(outer, {})) ELSE reported
       IN IF tok # EOF /\ tok # i.typ
          THEN Goes(pos, reported, calls, regs, recovered)
          ELSE Goes(pos, errs, Tail(calls), regs,
                    <<[recovered[1] EXCEPT !.upto = pos, !.after = Len(errs), !.done = TRUE]>>)

\* one turn of the loop of p.recoverTillDeclEnd, and what follows the loop
recoverTillDeclEnd ==
    /\ At("recoverTillDeclEnd")
    /\ LET i == Head(calls)
           tok == Peek
           pos == next(input, nextTok)
           outer == ZeroType
           errs == IF outer = EOF THEN Append(reported, Mismatch(outer, {})) ELSE reported
           leave == Goes(pos, errs, Tail(calls), regs, recovered)
           stay(blockCnt) ==
               Goes(pos, reported, <<RecoverTillDeclEnd(blockCnt)>> \o Tail(calls), regs, recovered)
       IN IF tok = EOF THEN leave
          ELSE IF i.blockCnt = 0 /\ tok = ";" THEN leave
          ELSE IF i.blockCnt = 1 /\ tok = "}" THEN leave
          ELSE IF i.blockCnt > 1 /\ tok = "}" THEN stay(i.blockCnt - 1)
          ELSE IF tok = "{" THEN stay(i.blockCnt + 1)
          ELSE stay(i.blockCnt)

\* the test of p.until and p.untilEither, and the call of body
until ==
    /\ At("until")
    /\ LET i == Head(calls)
       IN IF Peek \notin i.terms /\ Peek # EOF
          THEN Goes(nextTok, reported, i.body \o calls, regs, recovered)
          ELSE Runs(<<>>)

\* the test of a loop over the tokens of one Type, and its body
while ==
    /\ At("while")
    /\ LET i == Head(calls)
       IN IF Peek = i.typ
          THEN Goes(nextTok, reported, i.body \o calls, regs, recovered)
          ELSE Runs(<<>>)

\* switch p.peek().Type
switch ==
    /\ At("switch")
    /\ LET i == Head(calls)
           hit == SelectSeq(i.cases, LAMBDA c : Peek \in c.on)
       IN Runs(IF hit # <<>> THEN hit[1].code ELSE i.default)

\* a parse function is called
call == At("call") /\ Runs(Body(Head(calls).fn))

\* p.markErrExp on the token a switch has no case for
unexpected ==
    /\ At("markErrExp")
    /\ CanReport(1)
    /\ LET m == markErrExp(input, nextTok, reported, Head(calls).types)
       IN Goes(m.nextTok, m.reported, Tail(calls), [regs EXCEPT !.matched = FALSE], recovered)

\* p.markErr, p.markErrAt
markErr ==
    /\ At("markErr")
    /\ CanReport(1)
    /\ Goes(nextTok, Append(reported, Mismatch(Peek, {})), Tail(calls), regs, recovered)

\* p.next on the token a case has chosen
advance ==
    /\ At("next")
    /\ Goes(next(input, nextTok), reported, Tail(calls), regs, recovered)

\* the code for the "" of a mismatch
ifMismatch ==
    /\ At("ifMismatch")
    /\ Runs(IF regs.matched THEN <<>> ELSE Head(calls).code)

\* what the text of the token decides
byText ==
    /\ At("byText")
    /\ \E k \in 1..Len(Head(calls).codes) : Runs(Head(calls).codes[k])

\* parseValue returns
returns ==
    /\ At("return")
    /\ Goes(nextTok, reported, Tail(calls), [regs EXCEPT !.nilVal = Head(calls).nilVal], recovered)

\* a Go panic ends the parse
panics ==
    /\ \/ At("panic")
       \/ At("spanEnd") /\ regs.nilVal
    /\ Goes(nextTok, reported, <<>>, [regs EXCEPT !.panicked = TRUE], recovered)

\* val.SpanEnd() of an ast.Value
spanEnd == At("spanEnd") /\ ~regs.nilVal /\ Runs(<<>>)

\* the Params of a parameter list are made
newParams ==
    /\ At("newParams")
    /\ Goes(nextTok, reported, Tail(calls),
            [regs EXCEPT !.present = {}, !.misfiled = {}, !.vals = <<"", "">>], recovered)

\* defsIdx[key]: the key names one of the Params, or it is the "" of a
\* mismatch or a name that is no Param's, and then the index read from the map
\* is 0, the first Param
paramIndex ==
    /\ At("paramIndex")
    /\ \E named \in 0..Head(calls).n :
        /\ regs.matched \/ named = 0
        /\ Goes(nextTok, reported, Tail(calls),
                [regs EXCEPT !.key = IF named = 0 THEN 1 ELSE named,
                             !.keyed = IF named # 0 THEN "named"
                                       ELSE IF regs.matched THEN "other" ELSE "none"],
                recovered)

\* the Value a Param is left with by its parse, which starts at the token tok
ParsedValue(kind, tok, old) ==
    IF kind = "string" THEN (IF tok = "string" THEN tok ELSE "")
    ELSE IF tok \in {"true", "false"} THEN tok ELSE old

\* defs[defsIdx[key]].parse: the Param is set whatever it finds
parseParam ==
    /\ At("parseParam")
    /\ Goes(nextTok, reported,
            (IF Head(calls).kinds[regs.key] = "string" THEN StringParam ELSE BoolParam)
                \o Tail(calls),
            [regs EXCEPT !.present = @ \cup {regs.key},
                         !.misfiled = IF regs.keyed = "other" THEN @ \cup {regs.key}
                                      ELSE @ \ {regs.key},
                         !.vals[regs.key] =
                            ParsedValue(Head(calls).kinds[regs.key], Peek, @)],
            recovered)

\* the texts of the String Tokens a Parser is given: a literal without an
\* escape, and two with one
ParsedTexts ==
    { <<Quote, "a", Quote>>,
      <<Quote, Backslash, "n", Quote>>,
      <<Quote, Backslash, "u", "0", "0", "4", Quote>> }

\* parseString after expectWithText: with no String there, it has reported
\* and returns; else the quotes of the text are looked for
decodeString ==
    /\ At("decodeString")
    /\ IF ~regs.matched THEN Runs(<<>>)
       ELSE \E text \in ParsedTexts :
               Goes(nextTok, reported, <<ParseStringLoop>> \o Tail(calls),
                    [regs EXCEPT !.decoding = startDecoding(text)], recovered)

\* parseString is left in the state d.state
parseStringLeaves(d) ==
    IF d.state = "panicked"
    THEN Goes(nextTok, reported, <<>>, [regs EXCEPT !.panicked = TRUE, !.decoding = d], recovered)
    ELSE Goes(nextTok, reported,
              (IF d.state = "reported" THEN <<MarkErr>> ELSE <<>>) \o Tail(calls),
              [regs EXCEPT !.decoding = NotDecoding], recovered)

\* one turn of the loop of parseString has left d
parseStringTurned(d) ==
    /\ Len(d.res) <= MaxDecoded
    /\ IF d.state = "loop"
       THEN Goes(nextTok, reported, calls, [regs EXCEPT !.decoding = d], recovered)
       ELSE parseStringLeaves(d)

\* the loop of parseString, a turn at a time, and what follows it
parseStringLoop ==
    /\ At("parseStringLoop")
    /\ IF regs.decoding.state = "loop" THEN parseStringTurned(decodeTurn(regs.decoding))
       ELSE parseStringLeaves(regs.decoding)

\* p.requiredArgs: one diagnostic per Param that is not present
requiredArgs ==
    /\ At("requiredArgs")
    /\ LET missing == SetToSeq({k \in 1..Head(calls).n : k \notin regs.present})
       IN /\ CanReport(Len(missing))
          /\ Goes(nextTok, reported \o [k \in 1..Len(missing) |-> Mismatch(Peek, {})],
                  Tail(calls), regs, recovered)

\* parser.New and the call of Parse, on the tokens toks
New(toks) ==
    /\ input = toks
    /\ nextTok = skipComments(toks, 1)
    /\ calls = Parse
    /\ reported = <<>>
    /\ regs = [matched |-> TRUE, nilVal |-> FALSE, key |-> 1, present |-> {}, panicked |-> FALSE,
               keyed |-> "none", misfiled |-> {}, vals |-> <<"", "">>,
               decoding |-> NotDecoding]
    /\ recovered = <<>>

ParseNext ==
    \/ expect
    \/ expectOrRecover
    \/ recoverTill
    \/ recoverTillDeclEnd
    \/ until
    \/ while
    \/ switch
    \/ call
    \/ unexpected
    \/ markErr
    \/ advance
    \/ ifMismatch
    \/ byText
    \/ returns
    \/ panics
    \/ spanEnd
    \/ newParams
    \/ paramIndex
    \/ parseParam
    \/ requiredArgs
    \/ decodeString
    \/ parseStringLoop

(***************************************************************************)
(* Token streams.                                                          *)
(***************************************************************************)
\* an import block of both kinds, and a group-version with markers and docs
ImportsDocument ==
    << "import", "(",
         "types", "(", "{", "importName", ",", "importName", "}", "from", "string", ";", ")",
         "markers", "(", "key", "from", "string", ";", ")",
       ")",
       "doc", "comment", "@", "markerPath",
         "(", "key", ":", "[", "number", ",", "true", "]", ",",
              "key", ":", "key", "(", "key", ":", "fieldPath", ")", ")",
       "group-version", "(", "key", ":", "string", ",", "key", ":", "string", ")",
       "{", "}" >>

\* a group-version with a declaration of every kind
TypesDocument ==
    << "group-version", "(", "key", ":", "string", ",", "key", ":", "string", ")", "{",
         "kind", "type", "{",
            "field", ":", "key", "(", "key", ":", "type", ")", "qualPath", ",",
            "fieldOrKey", ":", "unqualPath", ",",
            "struct", "type", "{", "}",
         "}",
         "union", "type", "{", "fieldOrKey", ":", "type", ",", "}",
         "enum", "type", "{", "type", ",", "type", "}",
         "newtype", "type", ":", "key", ";",
       "}" >>

\* two kinds whose last fields end without a comma, a union with parameters,
\* and a struct value
LooseDocument ==
    << "group-version", "(", "key", ":", "string", ")", "{",
         "kind", "type", "{", "field", ":", "type", "}",
         "kind", "type", "{", "field", ":", "key", ",", "field", ":", "key", ",", "}",
         "union", "(", "key", ":", "true", ")", "type", "{", "}",
         "@", "key", "(", "key", ":", "{", "key", ":", "string", "}", ")",
         "newtype", "type", ":", "type", ";",
       "}" >>

Documents == {ImportsDocument, TypesDocument, LooseDocument}

\* the tokens put in the place of a token of a document
Slips == {"}", "{", ")", ",", ";", "type", "key", "kind", "string", "@"}

\* doc with the token at i replaced by tok
Replaced(doc, i, tok) == [doc EXCEPT ![i] = tok]

\* doc without the token at i
Dropped(doc, i) == SubSeq(doc, 1, i - 1) \o SubSeq(doc, i + 1, Len(doc))

\* doc cut off after i tokens
Truncated(doc, i) == SubSeq(doc, 1, i)

\* doc with one slip at any one place
Slipped(doc) ==
    {Replaced(doc, i, tok) : i \in 1..Len(doc), tok \in Slips}
    \cup {Dropped(doc, i) : i \in 1..Len(doc)}
    \cup {Truncated(doc, i) : i \in 1..Len(doc)}

\* every document as it is, and with one slip
SlippedDocuments == Documents \cup UNION {Slipped(doc) : doc \in Documents}

\* longest of the streams taken over every token of ShortAlphabet
MaxTokens == 3

\* the tokens of the short streams
ShortAlphabet == {"group-version", "(", ")", "{", "}", "kind", "type", "field", ":", ","}

\* every stream of n tokens of ShortAlphabet
ShortStreamsOf(n) == [1..n -> ShortAlphabet]

\* every stream of up to MaxTokens tokens of ShortAlphabet
ShortStreams == UNION {ShortStreamsOf(n) : n \in 0..MaxTokens}

\* one token, whichever, over and over
Repeated == {[k \in 1..n |-> tok] : tok \in TokenTypes, n \in 1..(2 * MaxTokens)}

TokenStreams == SlippedDocuments \cup ShortStreams \cup Repeated

\* no compile is running while a Parser is looked at on its own
NoCompile == Start(World(EmptyMap, <<>>))

ParseInit == \E stream \in TokenStreams : New(stream) /\ NoCompile /\ NoMarkers /\ NoLexer

\* the Parser runs on until Parse returns or the goroutine panics
ParserRun == ParseInit /\ [][ParseNext]_vars /\ WF_vars(ParseNext)


(***************************************************************************)
(* C15                                                                     *)
(***************************************************************************)
\* Parse has returned, or the goroutine has panicked
ParseEnded == calls = <<>>

\* the diagnostics of token mismatches among errs
Mismatches(errs) == SelectSeq(errs, LAMBDA e : e.expected # {})

\* a step that reports a token mismatch takes a token, or is at the end
MismatchTakesToken ==
    Len(Mismatches(reported')) > Len(Mismatches(reported))
        => nextTok' > nextTok \/ nextTok > Len(input)

\* C15: whenever the parser reports a token mismatch it consumes at least one
\* token or is already at the end of the input, and on every finite token
\* stream, malformed wherever it may be, every loop of the parser ends: Parse
\* returns (or the goroutine panics).
ParserTerminates == [][MismatchTakesToken]_vars /\ <>ParseEnded

\* Parse has returned from a stream of the same wrong token over and over,
\* with a mismatch reported at every token
MalformedEverywhere ==
    /\ ParseEnded
    /\ ~regs.panicked
    /\ Len(input) = 2 * MaxTokens
    /\ \A i \in 1..Len(input) : input[i] = ","
    /\ Len(Mismatches(reported)) >= Len(input)


(***************************************************************************)
(* C16                                                                     *)
(***************************************************************************)
\* the first position from j on of a `}` that closes a block open at j, given
\* depth blocks opened since; past the end if there is none
RECURSIVE scopeEnd(_, _, _)
scopeEnd(toks, j, depth) ==
    IF j > Len(toks) THEN j
    ELSE IF toks[j] = "{" THEN scopeEnd(toks, j + 1, depth + 1)
    ELSE IF toks[j] = "}" THEN IF depth = 0 THEN j ELSE scopeEnd(toks, j + 1, depth - 1)
    ELSE scopeEnd(toks, j + 1, depth)

\* the end of the scope of the declaration that the token at at is in
ScopeEnd(toks, at) == scopeEnd(toks, at, 0)

\* the first position after at of a token typ; past the end if there is none
RECURSIVE firstAfter(_, _, _)
firstAfter(toks, at, typ) ==
    IF at + 1 > Len(toks) \/ toks[at + 1] = typ THEN at + 1 ELSE firstAfter(toks, at + 1, typ)

\* where a recovery for typ after a mismatch at at is to stop
RecoveryStop(toks, at, typ) ==
    IF firstAfter(toks, at, typ) <= ScopeEnd(toks, at)
    THEN firstAfter(toks, at, typ)
    ELSE ScopeEnd(toks, at)

\* the Type of the token at pos, EOF past the end
TypeAt(toks, pos) == IF pos > Len(toks) THEN EOF ELSE toks[pos]

\* the recoveries of expectOrRecover that have ended
EndedRecoveries == SelectSeq(recovered, LAMBDA r : r.done)

\* C16: when the next token is not t, expectOrRecover(t) records one
\* expected-t diagnostic and takes tokens only up to the first following t or
\* the end of the scope of the declaration the mismatch is in, whichever
\* comes first: no token of a later declaration is taken.
RecoveryStaysInScope ==
    \A k \in 1..Len(EndedRecoveries) :
        LET r == EndedRecoveries[k]
        IN /\ r.after = r.before + 1
           /\ reported[r.after] = Mismatch(TypeAt(input, r.at), {r.typ})
           /\ r.upto <= next(input, RecoveryStop(input, r.at, r.typ))

\* a recovery has ended that took the `kind` of a declaration after the one
\* the mismatch was in
RecoveryAteNextDecl ==
    \E k \in 1..Len(EndedRecoveries) :
        LET r == EndedRecoveries[k]
        IN \E j \in (ScopeEnd(input, r.at) + 1)..(r.upto - 1) : input[j] = "kind"


(***************************************************************************)
(* C17                                                                     *)
(***************************************************************************)
\* ire.Bundle_File
BundleFile(name, contents) == [Name |-> name, Contents |-> contents]

\* Graph.BundleFor: the VirtualFiles it can build, one list per iteration
\* order of the PathToNode map
BundleFor(N) ==
    {[i \in 1..Len(o) |-> BundleFile(o[i], N[o[i]].Partial)] : o \in Orders(DOMAIN N)}

\* another run over the same file gives the dependencies this load gave
SameDependencies(l) ==
    \A deps \in Imports(world.files[l[1]].ast.Imports) :
        deps = loads[l[1]][l[2]].partial.Dependencies

\* C17: compiling the same source files twice gives the same output: the
\* dependencies of a Partial and the virtual files of a Bundle come in one
\* order, whatever the iteration order of the maps they are built from.
OutputIsDetermined ==
    /\ \A l \in Lowerings : SameDependencies(l)
    /\ pc = "done" /\ Outputs # Nil => Cardinality(BundleFor(PathToNode)) = 1

\* a file that imports two group-versions has been lowered, and the compile
\* has ended without a diagnostic with two files in the graph
TwoImportsCompiled ==
    /\ pc = "done"
    /\ Outputs # Nil
    /\ Cardinality(DOMAIN PathToNode) = 2
    /\ \E l \in Lowerings : Len(loads[l[1]][l[2]].partial.Dependencies) = 2


(***************************************************************************)
(* C18                                                                     *)
(***************************************************************************)
\* the files of the graph that declare the group-version gv
SourcesOf(gv) ==
    {path \in DOMAIN PathToNode :
        /\ PathToNode[path] # Nil
        /\ \E i \in 1..Len(PathToNode[path].Partial.GroupVersions) :
               GVFromDesc(PathToNode[path].Partial.GroupVersions[i].Description) = gv}

\* the names with a terminal, and the alias names, of the merged node of gv
MergedTerminalNames(gv) == DOMAIN heap[GVToNode[gv].maps].Terminals

MergedAliasNames(gv) == DOMAIN heap[GVToNode[gv].maps].References

\* C18: for a group-version whose declarations are split across two files,
\* the names with a terminal and the alias names of the merged node after
\* MergeNodes are those of the files taken together, in whichever order the
\* nodes were merged: A before B gives the same sets as B before A.
MergeIsCommutative ==
    MergeOver =>
        \A gv \in DOMAIN GVToNode :
            /\ MergedTerminalNames(gv) =
                   UNION {DOMAIN heap[PathToNode[path].maps].Terminals : path \in SourcesOf(gv)}
            /\ MergedAliasNames(gv) =
                   UNION {DOMAIN heap[PathToNode[path].maps].References : path \in SourcesOf(gv)}
            /\ {GVToNode[gv].Sources[i] : i \in 1..Len(GVToNode[gv].Sources)} = SourcesOf(gv)

\* core/v1 has been merged from b.kdl and then a.kdl, one of which declares
\* Dup as an alias and the other as a terminal
SplitMergedSecondFirst ==
    /\ MergeOver
    /\ \E gv \in DOMAIN GVToNode :
        /\ GVToNode[gv].Sources = <<"b.kdl", "a.kdl">>
        /\ \E name \in MergedTerminalNames(gv) \cap MergedAliasNames(gv) :
               name \in DOMAIN heap[PathToNode["a.kdl"].maps].Terminals


(***************************************************************************)
(* C19                                                                     *)
(***************************************************************************)
\* what lowering the source file at path gives when nothing was reported
\* before it
OwnOutcomes(path) == FileToIR(Note(Background, "path", path), world.files[path].ast)

\* the source file at path is free of errors by itself
ErrorFree(path) ==
    /\ world.files[path].form = "source"
    /\ \A out \in OwnOutcomes(path) : out.errs = NoErr /\ ~out.panics

\* the roots Config.Load's loop is through with
RootsDone == {world.roots[k] : k \in 1..(rootIdx - 1)}

\* C19: skipping after an error is per file: a root that is free of errors
\* by itself and comes after a root that recorded a diagnostic is still
\* parsed, lowered to its full Partial and added to the type graph.
SkippingIsPerFile ==
    \A path \in RootsDone :
        ErrorFree(path) =>
            /\ \A k \in 1..Len(loads[path]) : loads[path][k] \in OwnOutcomes(path)
            /\ path \in DOMAIN PathToNode

\* b.kdl, free of errors, was the root after a.kdl, which recorded a
\* diagnostic: its load gave the empty Partial and it is not in the graph
CleanRootSkipped ==
    /\ world.roots = <<"a.kdl", "b.kdl">>
    /\ rootIdx = 3
    /\ ErrorFree("b.kdl")
    /\ loads["a.kdl"] # <<>> /\ loads["a.kdl"][1].errs # NoErr
    /\ loads["b.kdl"] = <<Loaded(EmptyPartial, NoErr, FALSE)>>
    /\ "b.kdl" \notin DOMAIN PathToNode


\* ---------------------------------------------------------------------------
\* Marker resolution (fromast.ResolveMarkers) and the lowering of markers
\* (toir.Markers).
\*
\* A marker invocation is what the parser leaves of `@name(key: value, ...)`:
\* the definition its name finds among the imported marker sets (nil when it
\* finds none), the parameter list (nil when the invocation has none), and the
\* Resolved slot that the pass fills.
\* ---------------------------------------------------------------------------

\* the type of a marker field: a primitive, a list or a map of a primitive, or
\* a named type
MarkerType(is, of) == [is |-> is, of |-> of]

MarkerPrimitive(is) == MarkerType(is, "")

MarkerField(name, type) == [Name |-> name, Type |-> type]

\* a nil *irm.MarkerDef, and the definition with the given fields
NoMarkerDef == [nil |-> TRUE, Fields |-> <<>>]

MarkerDef(fields) == [nil |-> FALSE, Fields |-> fields]

\* the value of a marker argument: what kind of ast.Value it is, its text, and
\* the element values of a list or of a struct
MarkerValue(is, text, values) == [is |-> is, text |-> text, Values |-> values]

Scalar(is, text) == MarkerValue(is, text, <<>>)

MarkerParam(key, value) == [Key |-> key, Value |-> value]

\* a nil *ast.ParameterList, and the list of a written `(...)`
NoParameters == [nil |-> TRUE, Params |-> <<>>]

MarkerParameters(params) == [nil |-> FALSE, Params |-> params]

\* a nil proto.Message, and the message with the given fields set
NoMessage == [nil |-> TRUE, set |-> {}]

DynamicMessage(set) == [nil |-> FALSE, set |-> set]

\* a nil *ast.ResolvedMarker, and the one VisitMarker stores
NotResolved == [nil |-> TRUE, Message |-> NoMessage]

ResolvedMarker(msg) == [nil |-> FALSE, Message |-> msg]

AbstractMarker(def, params) ==
    [def |-> def, Parameters |-> params, Resolved |-> NotResolved]

\* an invalid protoreflect.Value, and the value of a kind made of a marker value
InvalidValue == [valid |-> FALSE, kind |-> MarkerPrimitive(""), of |-> Scalar("", "")]

ProtoValue(kind, val) == [valid |-> TRUE, kind |-> kind, of |-> val]

Converted(value, errs) == [value |-> value, errs |-> errs, panics |-> FALSE]

ConversionPanics == [value |-> InvalidValue, errs |-> <<>>, panics |-> TRUE]

\* the values of a list or of a struct against the converted elements: the
\* invalid ones are skipped, their diagnostics kept
Contained(typ, val, elems) ==
    IF \E i \in 1..Len(elems) : elems[i].panics THEN ConversionPanics
    ELSE Converted(
            ProtoValue(typ, [val EXCEPT !.Values =
                SelectSeq(val.Values,
                    LAMBDA e : \E i \in 1..Len(elems) : val.Values[i] = e /\ elems[i].value.valid)]),
            FlatSeq([i \in 1..Len(elems) |-> elems[i].errs]))

\* valToProto: the value checked against the type it is given
RECURSIVE valToProto(_, _)
valToProto(val, typ) ==
    CASE val.is = "String" ->
            IF typ.is # "string"
            THEN Converted(InvalidValue, <<"mismatched marker parameter value, got a string">>)
            ELSE Converted(ProtoValue(typ, val), <<>>)
      [] val.is = "Num" ->
            IF typ.is \in {"int32", "int64"}
            THEN Converted(ProtoValue(typ, val), <<>>)
            ELSE Converted(InvalidValue, <<"mismatched marker parameter value, got a number">>)
      [] val.is = "Bool" ->
            IF typ.is # "bool"
            THEN Converted(InvalidValue, <<"mismatched marker parameter value, got a bool">>)
            ELSE Converted(ProtoValue(typ, val), <<>>)
      [] val.is = "List" /\ typ.is # "list" ->
            Converted(InvalidValue, <<"mismtched marker parameter value, got a list">>)
      [] val.is = "Struct" /\ typ.is = "named" -> ConversionPanics
      [] val.is = "Struct" /\ typ.is # "map" ->
            Converted(InvalidValue, <<"mismtched marker parameter value, got a struct">>)
      [] val.is \in {"List", "Struct"} ->
            Contained(typ, val,
                [i \in 1..Len(val.Values) |-> valToProto(val.Values[i], MarkerPrimitive(typ.of))])
      [] val.is = "FieldPath" -> ConversionPanics
      [] val.is \in {"RefType", "PrimitiveType", "CompoundType"} ->
            Converted(InvalidValue,
                <<"type values are not supported in marker parameters (just yet)">>)
      [] OTHER -> ConversionPanics

\* the fields of the definition that carry the name: defFields.ByName
FieldsNamed(def, name) == {f \in 1..Len(def.Fields) : def.Fields[f].Name = name}

\* fieldInds[param.Key.Name]: fieldsByName is made empty and never filled, so
\* the index read from it is the zero value, the definition's first field
FieldIndex(def, key) == 1

\* the field of the definition whose type the argument is checked against
CheckedAgainst(def, key) == def.Fields[FieldIndex(def, key)]

\* one turn of markerToMsg's loop: what is recorded for the argument and what
\* is stored; dynamicpb's Set panics on a value of another kind than the field
SetField(own, v) ==
    IF v.panics THEN [store |-> {}, errs |-> <<>>, panics |-> TRUE]
    ELSE IF ~v.value.valid THEN [store |-> {}, errs |-> v.errs, panics |-> FALSE]
    ELSE IF v.value.kind # own.Type
    THEN [store |-> {}, errs |-> v.errs, panics |-> TRUE]
    ELSE [store |-> {[field |-> own.Name, value |-> v.value.of]},
          errs |-> v.errs, panics |-> FALSE]

ParamToField(def, param) ==
    IF FieldsNamed(def, param.Key) = {}
    THEN [store |-> {}, errs |-> <<"unknown parameter in marker">>, panics |-> FALSE]
    ELSE SetField(def.Fields[CHOOSE f \in FieldsNamed(def, param.Key) : TRUE],
                  valToProto(param.Value, CheckedAgainst(def, param.Key).Type))

\* the message of markerToMsg: nil with a diagnostic when no descriptor is
\* found; a nil parameter list is dereferenced; an unknown parameter and a
\* value of the wrong kind are reported and skipped; a value that valToProto
\* has no case for panics
RECURSIVE paramsToMsg(_, _, _, _)
\* the message and the diagnostics so far with one more argument handled
WithParam(acc, p) ==
    [msg |-> DynamicMessage(
                {s \in acc.msg.set : \A n \in p.store : n.field # s.field} \cup p.store),
     errs |-> acc.errs \o p.errs,
     panics |-> p.panics]

paramsToMsg(def, params, i, acc) ==
    IF i > Len(params) \/ acc.panics THEN acc
    ELSE paramsToMsg(def, params, i + 1, WithParam(acc, ParamToField(def, params[i])))

markerToMsg(raw) ==
    IF raw.def.nil
    THEN [msg |-> NoMessage, errs |-> <<"unknown marker">>, panics |-> FALSE]
    ELSE IF raw.Parameters.nil
    THEN [msg |-> NoMessage, errs |-> <<>>, panics |-> TRUE]
    ELSE paramsToMsg(raw.def, raw.Parameters.Params, 1,
            [msg |-> DynamicMessage({}), errs |-> <<>>, panics |-> FALSE])

\* markerConverter.VisitMarker, writing through the pointer it was given
Visited(marker, m) ==
    [marker |-> IF m.panics THEN marker
                ELSE [marker EXCEPT !.Resolved = ResolvedMarker(m.msg)],
     errs |-> m.errs,
     panics |-> m.panics]

VisitMarker(marker) == Visited(marker, markerToMsg(marker))

\* the marker lists of one declaration, visited in order: its own, then those
\* of its fields or variants; a panic ends the visit
RECURSIVE visitLists(_, _, _, _)
\* the lists and the diagnostics so far with one more marker visited
WithVisited(acc, l, i, v) ==
    [lists |-> [acc.lists EXCEPT ![l][i] = v.marker],
     errs |-> acc.errs \o v.errs,
     panics |-> v.panics]

visitLists(lists, l, i, acc) ==
    IF acc.panics \/ l > Len(lists) THEN acc
    ELSE IF i > Len(lists[l]) THEN visitLists(lists, l + 1, 1, acc)
    ELSE visitLists(lists, l, i + 1, WithVisited(acc, l, i, VisitMarker(acc.lists[l][i])))

VisitLists(lists) ==
    visitLists(lists, 1, 1, [lists |-> lists, errs |-> <<>>, panics |-> FALSE])

\* a declaration of the file: kinds and subtypes in one list per
\* group-version, a nested subtype naming the declaration it is written in
MarkedDecl(is, parent, markers, members) ==
    [is |-> is, parent |-> parent, Markers |-> markers, Members |-> members]

MarkedGroupVersion(markers, decls) == [Markers |-> markers, Decls |-> decls]

\* the subtypes written in declaration d of a group-version (its top-level
\* declarations for d = 0), in the order written
MarkedSubtypesOf(gv, d) ==
    LET idx == [i \in 1..Len(gv.Decls) |-> i]
    IN  SelectSeq(idx, LAMBDA c : gv.Decls[c].parent = d)

Visit(g, d) == [g |-> g, d |-> d]

\* the marker lists that EnterKind and EnterSubtype go through, and the
\* declaration with the lists put back
ListsOf(decl) ==
    IF decl.is = "newtype" THEN <<decl.Markers>>
    ELSE <<decl.Markers>> \o decl.Members

WithLists(decl, lists) ==
    [decl EXCEPT !.Markers = lists[1],
                 !.Members = IF decl.is = "newtype" THEN @
                             ELSE SubSeq(lists, 2, Len(lists))]

MarkerAt(op) == mpc = "resolving" /\ visiting # <<>> /\ op

\* what a visit leaves: its diagnostics, a panic if it ended in one, and the
\* declarations to enter next
VisitedThen(v, g, nested) ==
    /\ mtrace' = mtrace \o v.errs
    /\ mpc' = IF v.panics THEN "panicked" ELSE mpc
    /\ visiting' = [i \in 1..Len(nested) |-> Visit(g, nested[i])] \o Tail(visiting)

\* VisitMarkers: the markers of the group-version itself, each handed to the
\* visitor as the address of the loop variable, then VisitGroupVersion
VisitMarkers ==
    /\ MarkerAt(Head(visiting).d = 0)
    /\ VisitedThen(VisitLists(<<marked[Head(visiting).g].Markers>>),
                   Head(visiting).g, MarkedSubtypesOf(marked[Head(visiting).g], 0))
    /\ UNCHANGED <<marked, compileVars, parserVars, lexerVars>>

\* the markers of the declaration are resolved in place
EnteredWith(g, d, decl, v) ==
    /\ marked' = [marked EXCEPT ![g].Decls[d] = WithLists(decl, v.lists)]
    /\ VisitedThen(v, g, IF decl.is \in {"kind", "struct", "union"}
                         THEN MarkedSubtypesOf(marked[g], d) ELSE <<>>)
    /\ UNCHANGED <<compileVars, parserVars, lexerVars>>

Entered(g, d) ==
    EnteredWith(g, d, marked[g].Decls[d], VisitLists(ListsOf(marked[g].Decls[d])))

\* markerVisitor.EnterKind, and visitSubtypes over the kind's subtypes
EnterKind ==
    /\ MarkerAt(Head(visiting).d # 0)
    /\ marked[Head(visiting).g].Decls[Head(visiting).d].is = "kind"
    /\ Entered(Head(visiting).g, Head(visiting).d)

\* markerVisitor.EnterSubtype, and enterSubtype's switch on the body
EnterSubtype ==
    /\ MarkerAt(Head(visiting).d # 0)
    /\ marked[Head(visiting).g].Decls[Head(visiting).d].is # "kind"
    /\ Entered(Head(visiting).g, Head(visiting).d)

\* ResolveMarkers returns once every group-version is visited
ResolveMarkers ==
    /\ mpc = "resolving"
    /\ visiting = <<>>
    /\ mpc' = "resolved"
    /\ UNCHANGED <<marked, visiting, mtrace, compileVars, parserVars, lexerVars>>

\* every marker list of the file with the place it is written at
MarkerSites ==
    {[on |-> "group-version", Markers |-> marked[g].Markers] : g \in 1..Len(marked)}
    \cup UNION {
        {[on |-> marked[g].Decls[d].is, Markers |-> marked[g].Decls[d].Markers]
            : d \in 1..Len(marked[g].Decls)}
        : g \in 1..Len(marked)}
    \cup UNION { UNION {
        {[on |-> IF marked[g].Decls[d].is \in {"kind", "struct"} THEN "field"
                 ELSE IF marked[g].Decls[d].is = "union" THEN "variant"
                 ELSE "enum variant",
          Markers |-> marked[g].Decls[d].Members[k]]
            : k \in 1..Len(marked[g].Decls[d].Members)}
        : d \in 1..Len(marked[g].Decls)}
        : g \in 1..Len(marked)}

Unresolved(site) == \E i \in 1..Len(site.Markers) : site.Markers[i].Resolved.nil

\* toir.Markers over every marker list of the file: raw.Resolved.Message is
\* read of each marker.  Lowering runs only when the passes recorded nothing.
Markers ==
    /\ mpc = "resolved"
    /\ mtrace = <<>>
    /\ mpc' = IF \E site \in MarkerSites : Unresolved(site)
              THEN "lowering panicked" ELSE "lowered"
    /\ UNCHANGED <<marked, visiting, mtrace, compileVars, parserVars, lexerVars>>

MarkerNext ==
    \/ VisitMarkers
    \/ EnterKind
    \/ EnterSubtype
    \/ ResolveMarkers
    \/ Markers

\* --- the files the marker pass is run over ---

\* marker as(as: string), and the arguments tried on it
AsDef == MarkerDef(<<MarkerField("as", MarkerPrimitive("string"))>>)

Good == AbstractMarker(AsDef, MarkerParameters(<<MarkerParam("as", Scalar("String", "x"))>>))

\* marker limits(as: string, count: int64, on: bool, tags: list of string,
\* labels: map of string), with the fields in either order of the first two
LimitsFields ==
    <<MarkerField("as", MarkerPrimitive("string")),
      MarkerField("count", MarkerPrimitive("int64")),
      MarkerField("on", MarkerPrimitive("bool")),
      MarkerField("tags", MarkerType("list", "string")),
      MarkerField("labels", MarkerType("map", "string"))>>

MarkerDefs ==
    {MarkerDef(LimitsFields),
     MarkerDef(<<LimitsFields[2], LimitsFields[1]>> \o SubSeq(LimitsFields, 3, 5)),
     MarkerDef(<<LimitsFields[4], LimitsFields[1]>>),
     AsDef}

ArgumentValues ==
    {Scalar("String", "x"), Scalar("Num", "3"), Scalar("Bool", "true"),
     MarkerValue("List", "", <<Scalar("String", "a")>>),
     MarkerValue("List", "", <<Scalar("String", "a"), Scalar("Num", "1")>>),
     MarkerValue("Struct", "", <<Scalar("String", "a")>>)}

ArgumentKeys == {"as", "count", "on", "tags", "labels"}

\* one-argument invocations of every definition
Invocations ==
    {AbstractMarker(def, MarkerParameters(<<MarkerParam(key, value)>>)) :
        def \in MarkerDefs, key \in ArgumentKeys, value \in ArgumentValues}

\* marker lists that resolve cleanly, and the ones tried at one place at a time
CleanLists == {<<>>, <<Good>>}

ProbeLists ==
    {<<AbstractMarker(NoMarkerDef, MarkerParameters(<<MarkerParam("as", Scalar("String", "x"))>>))>>,
     <<AbstractMarker(AsDef, NoParameters)>>,
     <<AbstractMarker(AsDef, MarkerParameters(<<>>))>>,
     <<AbstractMarker(AsDef, MarkerParameters(
            <<MarkerParam("as", Scalar("String", "x")), MarkerParam("nope", Scalar("String", "x"))>>))>>,
     <<AbstractMarker(AsDef, MarkerParameters(
            <<MarkerParam("as", Scalar("Num", "3")), MarkerParam("as", Scalar("String", "x"))>>))>>,
     <<AbstractMarker(AsDef, MarkerParameters(<<MarkerParam("as", Scalar("FieldPath", ".x"))>>))>>,
     <<AbstractMarker(AsDef, MarkerParameters(<<MarkerParam("as", Scalar("RefType", "Pod"))>>))>>,
     <<Good, AbstractMarker(AsDef, MarkerParameters(
            <<MarkerParam("as", Scalar("String", "x")), MarkerParam("as", Scalar("String", "y"))>>))>>,
     <<Good, AbstractMarker(NoMarkerDef, MarkerParameters(<<>>))>>}
    \cup {<<inv>> : inv \in Invocations}

\* the eight places of MarkedFile where markers are written
Places == 1..8

\* @gv group-version(...) {
\*   @kind kind Pod { @field f: string, @sub struct Spec { @nested g: string } }
\*   union U { @variant v: string }   enum E { @evariant A }   @nt newtype N: string
\* }
MarkedFile(at) ==
    <<MarkedGroupVersion(at[1], <<
        MarkedDecl("kind", 0, at[2], <<at[3]>>),
        MarkedDecl("struct", 1, at[4], <<at[5]>>),
        MarkedDecl("union", 0, <<>>, <<at[6]>>),
        MarkedDecl("enum", 0, <<>>, <<at[7]>>),
        MarkedDecl("newtype", 0, at[8], <<>>)>>)>>

\* a second group-version with markers of its own follows the first
TwoGroupVersions(at) ==
    MarkedFile(at) \o <<MarkedGroupVersion(at[1], <<MarkedDecl("kind", 0, at[2], <<at[3]>>)>>)>>

MarkedFiles ==
    {MarkedFile(at) : at \in [Places -> CleanLists]}
    \cup {MarkedFile([p \in Places |-> IF p = q THEN probe ELSE <<Good>>])
            : q \in Places, probe \in ProbeLists}
    \cup {TwoGroupVersions([p \in Places |-> IF p \in qs THEN <<Good>> ELSE <<>>])
            : qs \in SUBSET {1, 2, 3}}

MarkerInit ==
    /\ \E file \in MarkedFiles :
        /\ marked = file
        /\ visiting = [g \in 1..Len(file) |-> Visit(g, 0)]
    /\ mtrace = <<>>
    /\ mpc = "resolving"
    /\ NoCompile
    /\ NoParser
    /\ NoLexer

MarkerRun == MarkerInit /\ [][MarkerNext]_vars

\* --- C20 ---

ResolvedCleanly == mpc \in {"resolved", "lowered", "lowering panicked"} /\ mtrace = <<>>

Carried(site) ==
    \A i \in 1..Len(site.Markers) :
        /\ ~site.Markers[i].Resolved.nil
        /\ ~site.Markers[i].Resolved.Message.nil

\* C20: once ResolveMarkers has run over a file without recording a
\* diagnostic, every marker invocation of the file, wherever it is written,
\* carries a resolved message, and the lowering of the markers never meets an
\* unresolved one.
EveryMarkerResolved ==
    /\ ResolvedCleanly => \A site \in MarkerSites : Carried(site)
    /\ mpc # "lowering panicked"

\* the pass ended without a diagnostic, the markers of the kind and of its
\* field carry their messages, the marker of the group-version carries none,
\* and lowering has dereferenced it
GroupVersionMarkerLeftUnresolved ==
    /\ mpc = "lowering panicked"
    /\ mtrace = <<>>
    /\ \E site \in MarkerSites :
        site.on = "group-version" /\ site.Markers # <<>> /\ Unresolved(site)
    /\ \E site \in MarkerSites :
        site.on = "kind" /\ site.Markers # <<>> /\ Carried(site)
    /\ \E site \in MarkerSites :
        site.on = "field" /\ site.Markers # <<>> /\ Carried(site)

\* away from the group-version every marker is resolved in place
OnlyGroupVersionMarkersMissed ==
    ResolvedCleanly =>
        \A site \in MarkerSites : site.on # "group-version" => Carried(site)


\* --- C21 ---

MismatchMessages ==
    {"mismatched marker parameter value, got a string",
     "mismatched marker parameter value, got a number",
     "mismatched marker parameter value, got a bool",
     "mismtched marker parameter value, got a list",
     "mismtched marker parameter value, got a struct"}

\* the value is of the field's type / of another type, as valToProto decides
\* when it is handed that type
FitsType(value, type) ==
    LET v == valToProto(value, type) IN ~v.panics /\ v.value.valid /\ v.errs = <<>>

OfAnotherType(value, type) ==
    LET v == valToProto(value, type)
    IN  ~v.panics /\ ~v.value.valid /\ \E e \in Range(v.errs) : e \in MismatchMessages

\* the field of the definition that the argument names
OwnField(def, param) == def.Fields[CHOOSE f \in FieldsNamed(def, param.Key) : TRUE]

\* the arguments of the invocation that name a field and are not written again
\* later in the list
NamedArguments(m) ==
    {k \in 1..Len(m.Parameters.Params) :
        /\ FieldsNamed(m.def, m.Parameters.Params[k].Key) # {}
        /\ \A l \in (k + 1)..Len(m.Parameters.Params) :
              m.Parameters.Params[l].Key # m.Parameters.Params[k].Key}

Stored(m, param) ==
    [field |-> param.Key, value |-> param.Value] \in m.Resolved.Message.set

CheckedAgainstOwnField(m, param) ==
    LET own == OwnField(m.def, param)
        did == ParamToField(m.def, param)
    IN  /\ FitsType(param.Value, own.Type) => Stored(m, param) /\ did.errs = <<>>
        /\ OfAnotherType(param.Value, own.Type) =>
              /\ ~Stored(m, param)
              /\ \E e \in Range(did.errs) : e \in MismatchMessages

ResolvedInvocations ==
    UNION {{site.Markers[i] : i \in {j \in 1..Len(site.Markers) :
                                        /\ ~site.Markers[j].Resolved.nil
                                        /\ ~site.Markers[j].def.nil}}
            : site \in MarkerSites}

\* every argument of every invocation of the file is one valToProto has a
\* case for, and every invocation has a parameter list
AllSupported ==
    \A site \in MarkerSites : \A i \in 1..Len(site.Markers) :
        LET m == site.Markers[i]
        IN  m.def.nil \/
            /\ ~m.Parameters.nil
            /\ \A k \in 1..Len(m.Parameters.Params) :
                  \A f \in FieldsNamed(m.def, m.Parameters.Params[k].Key) :
                      ~valToProto(m.Parameters.Params[k].Value, m.def.Fields[f].Type).panics

\* C21: when a marker invocation is resolved, each argument `key: value` is
\* checked against the declared type of the marker field named key: a value
\* of that field's type is stored in the field without a diagnostic, a value of
\* another type yields a mismatch diagnostic and is not stored; resolving
\* arguments of supported kinds does not panic.
ArgumentsCheckedAgainstOwnField ==
    /\ \A m \in ResolvedInvocations :
          \A k \in NamedArguments(m) : CheckedAgainstOwnField(m, m.Parameters.Params[k])
    /\ AllSupported => mpc # "panicked"

\* the pass has run over a file in which an invocation of
\* limits(as: string, count: int64, ...) is given `count: 3`: the invocation is
\* resolved, a number mismatch is recorded and count is not set
SecondFieldCheckedAsFirst ==
    /\ mpc = "resolved"
    /\ \E m \in ResolvedInvocations :
        /\ m.def = MarkerDef(LimitsFields)
        /\ m.Parameters.Params = <<MarkerParam("count", Scalar("Num", "3"))>>
        /\ m.Resolved.Message.set = {}
    /\ "mismatched marker parameter value, got a number" \in Range(mtrace)

\* an argument for the definition's first field is checked against its own type
FirstFieldChecked ==
    \A m \in ResolvedInvocations :
        \A k \in NamedArguments(m) :
            m.def.Fields[1].Name = m.Parameters.Params[k].Key
                => CheckedAgainstOwnField(m, m.Parameters.Params[k])


\* --- C22 ---

\* C22: in a fixed-parameter list a key that is none of the construct's
\* parameters is reported, and its value is stored in none of them.
UnknownKeysRejected ==
    /\ regs.misfiled = {}
    /\ regs.keyed = "other" /\ (At("expect") \/ At("parseParam")) => reported # <<>>

\* `group-version(grp: "x", version: "v1") { ... }` is parsed to its end with
\* no diagnostic at all while "x" sits in the first parameter, group
UnknownKeyStoredInFirst ==
    /\ ParseEnded
    /\ ~regs.panicked
    /\ input = TypesDocument
    /\ reported = <<>>
    /\ regs.misfiled = {1}
    /\ regs.vals[1] = "string"

\* --- C24 ---

\* BoolParam.parse is about to look at a boolean literal
AtBoolLiteral == calls # <<>> /\ Head(calls) = BoolParam[1] /\ Peek \in {"true", "false"}

BoolLiteralTaken ==
    AtBoolLiteral =>
        /\ nextTok' = next(input, nextTok)
        /\ reported' = reported
        /\ regs'.vals[regs.key] = Peek

\* C24: parsing `untagged: true` or `untagged: false` takes the literal,
\* records no diagnostic and leaves the flag equal to the literal, so that what
\* follows the literal is parsed as the rest of the parameter list.
BoolLiteralConsumed == [][BoolLiteralTaken]_vars

\* `union(untagged: true) U { }` is parsed to its end: the flag is true, and
\* the literal, still the next token after BoolParam.parse, was reported where
\* a comma was expected
LiteralReportedAsComma ==
    /\ ParseEnded
    /\ input = LooseDocument
    /\ regs.keyed = "named" /\ regs.key = 2 /\ regs.vals[2] = "true"
    /\ Mismatch("true", {","}) \in Range(reported)

\* the flag itself is the literal
FlagEqualsLiteral ==
    [][AtBoolLiteral => regs'.vals[regs.key] = Peek /\ regs'.present = regs.present]_vars


(***************************************************************************)
(* The Lexer (package lexer), rune by rune.  A rune is a string of one     *)
(* character; the scanner of text/scanner is the offset of the next rune.  *)
(***************************************************************************)
\* scanner.EOF, which is no rune of a source
EOFRune == "EOF"

\* the runes of the sources, by what package unicode says of them
Lower == {"a", "b", "e", "f", "k", "n", "q", "r", "t", "u", "z"}

Upper == {"A", "B"}

Digit == {"0", "1", "4"}

Letter == Lower \cup Upper

\* whitespace of Next
Whitespace == {"\t", "\n", "\r", " "}

\* the runes Next returns as a Token of their own
Symbols == {"(", ")", "{", "}", "[", "]", ":", ",", ";", "@"}

\* every rune a source is written in: all but the backtick of raw identifiers
Runes == Lower \cup Upper \cup Digit \cup Whitespace \cup Symbols
            \cup {Quote, Backslash, "/", "-", ".", "_"}

\* lexer.Token
Token(start, end, type) == [Start |-> start, End |-> end, Type |-> type]

\* Token{Type: 0}
ZeroToken == Token(0, 0, ZeroType)

\* lexer.New: nothing read, nothing held back
NewLexer == [sc |-> 0, tokBuf |-> <<>>, fakeNext |-> ZeroToken, Errors |-> <<>>]

\* what a scan function leaves: the Lexer, and the Token it returns
Returned(l, tok) == [l |-> l, tok |-> tok]

\* what a function of the Lexer leaves that says whether it found something
Found(l, ok) == [l |-> l, ok |-> ok]

\* l.peekCh
peekCh(s, l) == IF l.sc >= Len(s) THEN EOFRune ELSE s[l.sc + 1]

\* l.sc.Next: at the end the scanner stays
scNext(s, l) == IF l.sc >= Len(s) THEN l ELSE [l EXCEPT !.sc = @ + 1]

\* l.consumeCh: the rune, or EOF, goes into tokBuf
consumeCh(s, l) == [scNext(s, l) EXCEPT !.tokBuf = Append(@, peekCh(s, l))]

\* l.skipCh
skipCh(s, l) == scNext(s, l)

\* l.resetToken
resetToken(l) == [l EXCEPT !.tokBuf = <<>>]

\* l.markErr: l.Error is called with the position and the rune
lexMarkErr(l, ch) ==
    [l EXCEPT !.Errors = Append(@, [at |-> l.sc, unexpected |-> ch])]

\* l.expectCh
expectCh(s, l, expected) ==
    IF peekCh(s, l) # expected THEN Found(lexMarkErr(l, peekCh(s, l)), FALSE)
    ELSE Found(consumeCh(s, l), TRUE)

\* l.expectThat, cond being membership in the set
expectThat(s, l, set) ==
    IF peekCh(s, l) \notin set THEN Found(skipCh(s, lexMarkErr(l, peekCh(s, l))), FALSE)
    ELSE Found(consumeCh(s, l), TRUE)

\* l.skipWhile, cond being membership in the set
RECURSIVE skipWhile(_, _, _)
skipWhile(s, l, set) ==
    IF peekCh(s, l) = EOFRune THEN Found(l, FALSE)
    ELSE IF peekCh(s, l) \notin set THEN Found(l, TRUE)
    ELSE skipWhile(s, skipCh(s, l), set)

\* l.consumeWhile, cond being membership in the set
RECURSIVE consumeWhile(_, _, _)
consumeWhile(s, l, set) ==
    IF peekCh(s, l) = EOFRune THEN Found(l, FALSE)
    ELSE IF peekCh(s, l) \notin set THEN Found(l, TRUE)
    ELSE consumeWhile(s, consumeCh(s, l), set)

\* a scan function of the Lexer that no source of Sources gets to: nothing
\* of it is modelled, and the source is given up
NotModelled(s, l, start) == Returned([l EXCEPT !.sc = Len(s)], Token(start, Len(s), "not modelled"))

\* the Token a scan function returns when it ends where the scanner is
Ends(l, start, type) == Returned(l, Token(start, l.sc, type))

\* l.scanNumber, from the digits on
scanDigits(s, first, start) ==
    IF ~first.ok THEN Ends(skipCh(s, first.l), start, "number")
    ELSE Ends(consumeWhile(s, first.l, Digit).l, start, "number")

\* l.scanNumber
scanNumber(s, l) ==
    scanDigits(s, expectThat(s, IF peekCh(s, l) = "-" THEN consumeCh(s, l) ELSE l, Digit \ {"0"}),
               l.sc)

\* l.scanTypeIdentInternal
scanTypeIdentInternal(s, l) ==
    IF peekCh(s, l) \notin Upper THEN expectThat(s, l, Upper)
    ELSE Found(consumeWhile(s, expectThat(s, l, Upper).l, Letter \cup Digit).l, TRUE)

\* l.scanTypeIdent
scanTypeIdent(s, l) == Ends(scanTypeIdentInternal(s, l).l, l.sc, "type")

\* the loop of l.scanUnqualPathInternal over the ::TypeIdent parts: first
\* is what the scan of the part before left
RECURSIVE scanUnqualParts(_, _)
scanUnqualParts(s, first) ==
    IF ~first.ok THEN first
    ELSE IF peekCh(s, first.l) # ":" THEN first
    ELSE IF ~expectCh(s, consumeCh(s, first.l), ":").ok
         THEN expectCh(s, consumeCh(s, first.l), ":")
    ELSE scanUnqualParts(s, scanTypeIdentInternal(s, expectCh(s, consumeCh(s, first.l), ":").l))

\* l.scanUnqualPathInternal
scanUnqualPathInternal(s, l) == scanUnqualParts(s, scanTypeIdentInternal(s, l))

\* l.scanRestOfUnqualPath
scanRestOfUnqualPath(s, l, start) ==
    IF ~expectCh(s, l, ":").ok THEN Ends(expectCh(s, l, ":").l, start, "unqualPath")
    ELSE Ends(scanUnqualPathInternal(s, expectCh(s, l, ":").l).l, start, "unqualPath")

\* l.scanRestOfMarkerPath, from the name on
scanMarkerName(s, first, start) ==
    IF ~first.ok THEN Ends(first.l, start, "markerPath")
    ELSE Ends(consumeWhile(s, first.l, Lower \cup Digit \cup {"-"}).l, start, "markerPath")

\* l.scanRestOfMarkerPath
scanRestOfMarkerPath(s, l, start) ==
    IF ~expectCh(s, l, ":").ok THEN Ends(expectCh(s, l, ":").l, start, "unqualPath")
    ELSE scanMarkerName(s, expectThat(s, expectCh(s, l, ":").l, Lower), start)

\* l.scanRestOfFieldIdent
scanRestOfFieldIdent(s, l, start) ==
    Ends(consumeWhile(s, consumeCh(s, l), Letter \cup Digit).l, start, "field")

\* the keywords without a dash, as tokBuf holds them
Spelled ==
    [ import |-> <<"i", "m", "p", "o", "r", "t">>,
      types |-> <<"t", "y", "p", "e", "s">>,
      markers |-> <<"m", "a", "r", "k", "e", "r", "s">>,
      from |-> <<"f", "r", "o", "m">>,
      kind |-> <<"k", "i", "n", "d">>,
      struct |-> <<"s", "t", "r", "u", "c", "t">>,
      union |-> <<"u", "n", "i", "o", "n">>,
      enum |-> <<"e", "n", "u", "m">>,
      newtype |-> <<"n", "e", "w", "t", "y", "p", "e">>,
      marker |-> <<"m", "a", "r", "k", "e", "r">>,
      true |-> <<"t", "r", "u", "e">>,
      false |-> <<"f", "a", "l", "s", "e">> ]

\* the switch of scanIdentish on string(l.tokBuf)
KeywordOrIdent(text) ==
    IF \E kw \in DOMAIN Spelled : Spelled[kw] = text
    THEN CHOOSE kw \in DOMAIN Spelled : Spelled[kw] = text
    ELSE "fieldOrKey"

\* the end of scanIdentish: a keyword, or a field identifier or key
scanIdentEnd(l, start) == Ends(l, start, KeywordOrIdent(l.tokBuf))

\* the case of scanIdentish for a colon after lower-case runes, the colon
\* consumed: a marker path, or the colon is taken out of tokBuf and held
\* back as the Token of the next call of Next
scanKeyColon(s, l, start, potentialEnd) ==
    IF peekCh(s, l) = ":" THEN scanRestOfMarkerPath(s, l, start)
    ELSE scanIdentEnd([l EXCEPT !.tokBuf = SubSeq(@, 1, Len(@) - 1),
                                !.fakeNext = Token(potentialEnd, l.sc, ":")],
                      start)

\* the loop of l.scanIdentish; every rune of the sources is ASCII
RECURSIVE scanIdentLoop(_, _, _, _)
scanIdentLoop(s, l, start, allLower) ==
    IF peekCh(s, l) = EOFRune THEN scanIdentEnd(l, start)
    ELSE IF allLower /\ peekCh(s, l) = "-" THEN NotModelled(s, l, start)
    ELSE IF allLower /\ peekCh(s, l) = ":" THEN scanKeyColon(s, consumeCh(s, l), start, l.sc)
    ELSE IF ~allLower /\ peekCh(s, l) = ":" THEN scanRestOfUnqualPath(s, l, start)
    ELSE IF allLower /\ peekCh(s, l) \in {"/", "."} THEN NotModelled(s, l, start)
    ELSE IF peekCh(s, l) \in Upper THEN scanRestOfFieldIdent(s, l, start)
    ELSE IF peekCh(s, l) \in Letter \cup Digit
         THEN scanIdentLoop(s, consumeCh(s, l), start, allLower /\ peekCh(s, l) \in Lower)
    ELSE scanIdentEnd(l, start)

\* l.scanIdentish
scanIdentish(s, l) == scanIdentLoop(s, consumeCh(s, l), l.sc, peekCh(s, l) \in Lower)

\* consumeTillEnd of scanString
consumeTillEnd(s, l) ==
    IF skipWhile(s, l, Runes \ {Quote}).ok THEN skipCh(s, skipWhile(s, l, Runes \ {Quote}).l)
    ELSE skipCh(s, lexMarkErr(skipWhile(s, l, Runes \ {Quote}).l, EOFRune))

\* scanString gives up on the rune ch: the Token ends there, and the rest
\* of the literal is skipped
scanStringFails(s, l, start, ch) ==
    Returned(consumeTillEnd(s, lexMarkErr(l, ch)), Token(start, l.sc, "string"))

\* the escapes of one rune that scanString lets through
SimpleEscapes == {Backslash, Quote, "/", "b", "f", "n", "r", "t"}

\* the runes scanString lets through in a \u escape
EscapeRunes == Digit \cup Lower \cup Upper

\* the loop of scanString over the four runes of a \u escape, i of them
\* done; the first it looks at is the u
RECURSIVE scanUnicodeEscape(_, _, _, _)
scanUnicodeEscape(s, l, start, i) ==
    IF i >= 4 THEN Found(l, TRUE)
    ELSE IF peekCh(s, l) \notin EscapeRunes THEN Found(l, FALSE)
    ELSE scanUnicodeEscape(s, consumeCh(s, l), start, i + 1)

\* the loop of l.scanString
RECURSIVE scanStringLoop(_, _, _)
\* the case of a backslash, the backslash consumed
scanEscape(s, l, start) ==
    IF peekCh(s, l) \in SimpleEscapes THEN scanStringLoop(s, consumeCh(s, l), start)
    ELSE IF peekCh(s, l) # "u" THEN scanStringFails(s, l, start, peekCh(s, l))
    ELSE IF scanUnicodeEscape(s, l, start, 0).ok
         THEN scanStringLoop(s, scanUnicodeEscape(s, l, start, 0).l, start)
    ELSE scanStringFails(s, scanUnicodeEscape(s, l, start, 0).l, start,
                         peekCh(s, scanUnicodeEscape(s, l, start, 0).l))

scanStringLoop(s, l, start) ==
    IF peekCh(s, l) = EOFRune THEN Ends(lexMarkErr(l, EOFRune), start, "string")
    ELSE IF peekCh(s, l) \in {"\r", "\n"} THEN scanStringFails(s, l, start, peekCh(s, l))
    ELSE IF peekCh(s, l) = Backslash THEN scanEscape(s, consumeCh(s, l), start)
    ELSE IF peekCh(s, l) = Quote THEN Ends(consumeCh(s, l), start, "string")
    ELSE scanStringLoop(s, consumeCh(s, l), start)

\* l.scanString
scanString(s, l) == scanStringLoop(s, consumeCh(s, l), l.sc)

\* the default case of Next for a rune that starts nothing: it is reported
\* and taken, and the Lexer skips on past the next end of a scope
scanUnexpected(s, l) ==
    IF skipWhile(s, consumeCh(s, lexMarkErr(l, peekCh(s, l))), Runes \ {"}", ")"}).ok
    THEN Returned(skipCh(s, skipWhile(s, consumeCh(s, lexMarkErr(l, peekCh(s, l))),
                                      Runes \ {"}", ")"}).l),
                  Token(l.sc, l.sc + 1, "unexpected"))
    ELSE Returned(skipWhile(s, consumeCh(s, lexMarkErr(l, peekCh(s, l))), Runes \ {"}", ")"}).l,
                  Token(l.sc, l.sc + 1, "unexpected"))

\* the switch of Next on the rune ch that the next Token starts with
scanToken(s, l, ch) ==
    IF ch \in {"/", ".", "_"} THEN NotModelled(s, l, l.sc)
    ELSE IF ch = "-" \/ ch \in Digit THEN scanNumber(s, l)
    ELSE IF ch = Quote THEN scanString(s, l)
    ELSE IF ch \in Upper THEN scanTypeIdent(s, l)
    ELSE IF ch \in Lower THEN scanIdentish(s, l)
    ELSE IF ch \in Symbols THEN Returned(consumeCh(s, l), Token(l.sc, l.sc + 1, ch))
    ELSE scanUnexpected(s, l)

\* Next after the whitespace
scanAfterSpace(s, l) ==
    IF peekCh(s, l) = EOFRune THEN Returned(l, Token(l.sc, l.sc, EOF))
    ELSE scanToken(s, resetToken(l), peekCh(s, l))

\* Lexer.Next: the Token held back, or the next of the source
LexerNext(s, l) ==
    IF l.fakeNext.Type # ZeroType
    THEN Returned([l EXCEPT !.tokBuf = <<l.fakeNext.Type>>, !.fakeNext = ZeroToken], l.fakeNext)
    ELSE scanAfterSpace(s, skipWhile(s, l, Whitespace).l)

(***************************************************************************)
(* A Lexer on its own: a Parser takes its Tokens one by one and decodes    *)
(* the String ones.                                                        *)
(***************************************************************************)
\* longest of the sources written rune by rune in IdentRunes
MaxRunes == 4

\* most escapes and runes between the quotes of a source that is a string
MaxPieces == 2

\* the runes of the sources of keys, types, numbers and colons
IdentRunes == {"k", "A", "1", ":", " ", "("}

\* a keyword, and what may follow it
KeywordSources ==
    {<<"t", "r", "u", "e">> \o rest : rest \in SeqsUpTo({":", " ", "k"}, MaxRunes - 1) \cup {<<>>}}

\* sources of keys, marker paths, types and symbols
KeySources == SeqsUpTo(IdentRunes, MaxRunes) \cup KeywordSources

\* what lies between the quotes of a string: runes, escapes good and bad
Pieces ==
    { <<"a">>, <<"\n">>, <<Backslash>>,
      <<Backslash, "n">>, <<Backslash, Quote>>, <<Backslash, Backslash>>, <<Backslash, "/">>,
      <<Backslash, "b">>, <<Backslash, "f">>, <<Backslash, "r">>, <<Backslash, "t">>,
      <<Backslash, "q">>,
      <<Backslash, "u", "0", "0", "4", "1">>, <<Backslash, "u", "0", "0", "0", "a">>,
      <<Backslash, "u", "z", "z", "z", "z">>, <<Backslash, "u", "0", "0", "4">> }

\* the pieces one after the other
RECURSIVE Joined(_)
Joined(pieces) == IF pieces = <<>> THEN <<>> ELSE Head(pieces) \o Joined(Tail(pieces))

\* string literals, closed or not
StringSources ==
    {<<Quote>> \o Joined(pieces) \o close
        : pieces \in SeqsUpTo(Pieces, MaxPieces) \cup {<<>>}, close \in {<<Quote>>, <<>>}}

Sources == KeySources \cup StringSources

\* a Token with the TokenText the Lexer has for it
WithText(r) == [Start |-> r.tok.Start, End |-> r.tok.End, Type |-> r.tok.Type, Text |-> r.l.tokBuf]

\* the Token the Parser looks at: the last that Next returned
Lookahead == IF lexed = <<>> THEN ZeroType ELSE lexed[Len(lexed)].Type

\* the Parser is not kept in a parseString
ParserFree == decoding.state \in {"idle", "reported", "returned"}

\* Next has returned r
Lexes(r) ==
    /\ lex' = r.l
    /\ lexed' = Append(lexed, WithText(r))

\* p.next: Next is called for the Token after the one looked at
nextToken ==
    /\ ParserFree
    /\ Lookahead \notin {EOF, "string"}
    /\ Lexes(LexerNext(source, lex))
    /\ UNCHANGED <<source, decoding, compileVars, parserVars, markerVars>>

\* parseString up to its loop: the text of the String is taken, Next is
\* called, and the quotes of the text are looked for
parseStringText ==
    /\ ParserFree
    /\ Lookahead = "string"
    /\ Lexes(LexerNext(source, lex))
    /\ decoding' = startDecoding(lex.tokBuf)
    /\ UNCHANGED <<source, compileVars, parserVars, markerVars>>

\* one turn of the loop of parseString
parseStringTurn ==
    /\ decoding.state = "loop"
    /\ Len(decodeTurn(decoding).res) <= MaxDecoded
    /\ decoding' = decodeTurn(decoding)
    /\ UNCHANGED <<source, lex, lexed, compileVars, parserVars, markerVars>>

LexNext ==
    \/ nextToken
    \/ parseStringText
    \/ parseStringTurn

LexInit ==
    /\ source \in Sources
    /\ lex = NewLexer
    /\ lexed = <<>>
    /\ decoding = NotDecoding
    /\ NoCompile
    /\ NoParser
    /\ NoMarkers

\* the Lexer is read to the end of its source; a parseString that has been
\* called runs on
LexerRun == LexInit /\ [][LexNext]_vars /\ WF_vars(parseStringTurn)


\* --- C23 ---

\* every Token that Next returns for the source s, the EOF included: r is
\* what the last call of Next left
RECURSIVE LexFrom(_, _, _)
LexFrom(s, acc, r) ==
    IF r.tok.Type = EOF THEN Append(acc, WithText(r))
    ELSE LexFrom(s, Append(acc, WithText(r)), LexerNext(s, r.l))

Tokens(s) == LexFrom(s, <<>>, LexerNext(s, NewLexer))

\* how many lower-case runes s has from its i-th rune on, before any other
RECURSIVE LowerRun(_, _)
LowerRun(s, i) == IF i <= Len(s) /\ s[i] \in Lower THEN 1 + LowerRun(s, i + 1) ELSE 0

\* the length of the lower-case identifier that s starts with
KeyLen(s) == LowerRun(s, 1)

\* the rune of s at i, EOFRune past the end
RuneAt(s, i) == IF i <= Len(s) THEN s[i] ELSE EOFRune

\* s is a lower-case identifier, one colon right after it, and more
KeyThenColon(s) ==
    /\ KeyLen(s) >= 1
    /\ RuneAt(s, KeyLen(s) + 1) = ":"
    /\ RuneAt(s, KeyLen(s) + 2) # ":"

\* s is a lower-case identifier, two colons right after it, and more
KeyThenTwoColons(s) ==
    /\ KeyLen(s) >= 1
    /\ RuneAt(s, KeyLen(s) + 1) = ":"
    /\ RuneAt(s, KeyLen(s) + 2) = ":"

\* s with a space between its identifier and the colon
Spaced(s) == SubSeq(s, 1, KeyLen(s)) \o <<" ">> \o SubSeq(s, KeyLen(s) + 1, Len(s))

\* the position pos of Spaced(s), in s
Unspaced(pos, k) == IF pos > k THEN pos - 1 ELSE pos

\* the Token tok of Spaced(s), where it is in s
TokenUnspaced(tok, k) ==
    [tok EXCEPT !.Start = Unspaced(@, k), !.End = Unspaced(@, k)]

\* the Tokens of s written with a space before the colon, where they are in s
TokensAsSpaced(s) == [i \in DOMAIN Tokens(Spaced(s)) |-> TokenUnspaced(Tokens(Spaced(s))[i], KeyLen(s))]

\* the Tokens returned so far are the first of expected
LexedAs(expected) ==
    /\ Len(lexed) <= Len(expected)
    /\ \A i \in 1..Len(lexed) : lexed[i] = expected[i]

\* the first Token is a marker path that starts where the source does
OneMarkerPath ==
    lexed # <<>> => lexed[1].Type = "markerPath" /\ lexed[1].Start = 0
                     /\ SubSeq(lexed[1].Text, 1, KeyLen(source) + 2)
                            = SubSeq(source, 1, KeyLen(source) + 2)

\* C23: for a lower-case identifier k with one colon right after it, Next
\* returns the Tokens it returns for k written with a space before the colon:
\* a key or keyword whose text and end cover the runes of k and no more, a
\* colon where the colon is, and then what follows the colon; only with a
\* second colon right after the first is the whole one marker path.
KeyColonLexedAsSpaced ==
    /\ KeyThenColon(source) => LexedAs(TokensAsSpaced(source))
    /\ KeyThenTwoColons(source) => OneMarkerPath

\* the Token tok, wherever it ends
EndAside(tok) == [tok EXCEPT !.End = 0]

\* but for where the key ends, the Tokens are those of the spaced source
KeyColonLexedAsSpacedButEnd ==
    /\ KeyThenColon(source)
        => /\ Len(lexed) <= Len(TokensAsSpaced(source))
           /\ \A i \in 1..Len(lexed) :
                IF i = 1 THEN EndAside(lexed[i]) = EndAside(TokensAsSpaced(source)[i])
                ELSE lexed[i] = TokensAsSpaced(source)[i]
    /\ KeyThenTwoColons(source) => OneMarkerPath

\* `k:(` is read to its end, and the key k ends after the colon
KeyEndsAfterColon ==
    /\ source = <<"k", ":", "(">>
    /\ Len(lexed) = 4
    /\ lexed[1] = [Start |-> 0, End |-> 2, Type |-> "fieldOrKey", Text |-> <<"k">>]
    /\ lexed[2] = [Start |-> 1, End |-> 2, Type |-> ":", Text |-> <<":">>]
    /\ lexed[3] = [Start |-> 2, End |-> 3, Type |-> "(", Text |-> <<"(">>]
    /\ lexed[4].Type = EOF


\* --- C25 ---

\* the Lexer takes the whole of text as one string literal and reports nothing
Accepts(text) ==
    /\ text # <<>>
    /\ text[1] = Quote
    /\ scanString(text, NewLexer).l.Errors = <<>>
    /\ scanString(text, NewLexer).l.sc = Len(text)

\* the text of the Token that parseString was called for: the one before
\* the Token the Parser now looks at
Literal == lexed[Len(lexed) - 1].Text

\* parseString has been called for a literal that the Lexer accepted
AcceptedLiteral == decoding.state # "idle" /\ Accepts(Literal)

\* what the four runes after \u denote, when they are hexadecimal digits
IsUnicodeEscape(content) ==
    /\ Len(content) >= 6
    /\ content[2] = "u"
    /\ ParseUint(SubSeq(content, 3, 6), 1, 0) >= 0

\* the content of a literal with every JSON escape replaced by what it
\* denotes; a backslash that starts none is left as it is
RECURSIVE Denoted(_)
Denoted(content) ==
    IF content = <<>> THEN <<>>
    ELSE IF Head(content) # Backslash THEN <<Head(content)>> \o Denoted(Tail(content))
    ELSE IF Len(content) >= 2 /\ content[2] \in SimpleEscapes
         THEN <<EscapedByte(content[2])>> \o Denoted(SubSeq(content, 3, Len(content)))
    ELSE IF IsUnicodeEscape(content)
         THEN <<RuneOf(ParseUint(SubSeq(content, 3, 6), 1, 0))>> \o Denoted(SubSeq(content, 7, Len(content)))
    ELSE <<Head(content)>> \o Denoted(Tail(content))

\* the content of the literal text
Content(text) == SubSeq(text, 2, Len(text) - 1)

\* parseString has not panicked, and what it returns is the content decoded
DecodedRight ==
    /\ decoding.state # "panicked"
    /\ decoding.state = "returned" => decoding.res = Denoted(Content(Literal))

\* C25: for every string literal the Lexer accepts, parseString returns, it
\* does not panic, and what it returns is the content of the literal with
\* every JSON escape replaced by the character it denotes.
AcceptedLiteralsDecoded ==
    /\ [](AcceptedLiteral => DecodedRight)
    /\ (AcceptedLiteral ~> decoding.state = "returned")

\* the literal has no backslash in it
PlainLiteral == \A i \in DOMAIN Literal : Literal[i] # Backslash

\* the accepted literals without an escape are decoded, at the first turn
PlainLiteralsDecoded ==
    /\ [](AcceptedLiteral /\ PlainLiteral => DecodedRight)
    /\ (AcceptedLiteral /\ PlainLiteral ~> decoding.state = "returned")

\* whatever the accepted literal, what parseString returns is right
ReturnedIsRight ==
    AcceptedLiteral /\ decoding.state = "returned" => decoding.res = Denoted(Content(Literal))

\* the loop of parseString is at its third turn on the one escape of "\n"
EscapeDecodedAgain ==
    /\ source = <<Quote, Backslash, "n", Quote>>
    /\ AcceptedLiteral
    /\ decoding.state = "loop"
    /\ decoding.current = 0
    /\ decoding.res = <<"\n", "\n">>

\* the Lexer has accepted \u and three runes, and parseString has panicked
ShortEscapePanics ==
    /\ source = <<Quote, Backslash, "u", "0", "0", "4", Quote>>
    /\ AcceptedLiteral
    /\ decoding.state = "panicked"

\* the Lexer has accepted \uzzzz, and parseString has panicked
BadHexPanics ==
    /\ source = <<Quote, Backslash, "u", "z", "z", "z", "z", Quote>>
    /\ AcceptedLiteral
    /\ decoding.state = "panicked"


\* TypesDocument is parsed up to the first string of its group-version, and
\* parseString is in its loop for good: the one escape of the string has
\* been decoded as often as the loop is followed, and nothing was reported
ParseStringNeverReturns ==
    /\ input = TypesDocument
    /\ ~ParseEnded
    /\ At("parseStringLoop")
    /\ reported = <<>>
    /\ regs.decoding.state = "loop"
    /\ regs.decoding.raw = <<Backslash, "n">>
    /\ regs.decoding.current = 0
    /\ Len(regs.decoding.res) = MaxDecoded

\* a step that reports a token mismatch takes a token, or is at the end
MismatchesTakeTokens == [][MismatchTakesToken]_vars


\* --- C28 ---

\* C28: during one Config.Load every virtual path is read and parsed through
\* the loader at most once, however many files import it, whether or not it
\* is a root as well, in whichever order the roots come, and whether or not
\* an earlier file recorded a diagnostic.
EveryPathLoadedOnce == \A path \in DOMAIN loads : Len(loads[path]) <= 1


\* no path is given as a root twice
DistinctRoots == \A i, j \in DOMAIN world.roots : world.roots[i] = world.roots[j] => i = j

\* with every root given once, every path is loaded at most once
PathsOfDistinctRootsLoadedOnce == DistinctRoots => EveryPathLoadedOnce

\* Config.Load is over, and a.kdl, given as a root twice, has been read and
\* parsed twice: its first load recorded a diagnostic, and it never got a node
RootLoadedTwice ==
    /\ pc = "done"
    /\ world.roots = <<"a.kdl", "a.kdl">>
    /\ Len(loads["a.kdl"]) = 2
    /\ loads["a.kdl"][1].errs # NoErr
    /\ "a.kdl" \notin DOMAIN PathToNode


\* --- C27 ---

\* the loop of TerminalFor ends for name
LoopEnds(name) == ~TerminalFor(GVToNode, heap, Background, name).loops

\* C27: TerminalFor returns, a terminal or nil, for every name in every graph
\* that loading builds, also when newtypes name each other in a ring
\* (`newtype A: B; newtype B: A;`): no check of CheckAll is kept in it.
TerminalForReturns ==
    /\ pc # "hang"
    /\ Merged => \A name \in AskedNames : LoopEnds(name)

\* a.kdl declares `newtype A: B; newtype B: A;`, it was loaded and merged
\* without a diagnostic, and CheckReferences never returns
AliasRingHangs ==
    /\ pc = "hang"
    /\ diags = EmptyBag
    /\ world.files["a.kdl"].ast.GroupVersions[1].Decls[5] = AliasOf("A", "B")
    /\ world.files["a.kdl"].ast.GroupVersions[1].Decls[6] = AliasOf("B", "A")
    /\ world.files["a.kdl"].ast.GroupVersions[1].Decls[7].decl = "Kind"

\* some name is its own alias, at some remove, in a merged node
RECURSIVE Reaches(_, _, _, _)
Reaches(refs, from, to, n) ==
    /\ n > 0
    /\ from \in DOMAIN refs
    /\ refs[from] = to \/ Reaches(refs, refs[from], to, n - 1)

AliasRing ==
    \E gv \in DOMAIN GVToNode :
        \E name \in DOMAIN MergedOf(gv).References :
            Reaches(MergedOf(gv).References, name, name, Cardinality(DOMAIN MergedOf(gv).References))

\* where no newtypes name each other in a ring, TerminalFor returns
TerminalForReturnsWithoutRing == AliasRing \/ TerminalForReturns


(***************************************************************************)
(* MergeNodes and the maps of the file Nodes.                              *)
(***************************************************************************)
\* the References and Terminals of every Node that was saved are after the
\* step what they were before it
NodeMapsStay ==
    \A path \in DOMAIN PathToNode :
        PathToNode[path] # Nil => heap'[NodeMaps(path)] = heap[NodeMaps(path)]

\* C26: MergeNodes never changes the References or Terminals maps of a file's
\* Node: through every iteration of the merge, in every order of the range
\* over PathToNode, each Node's maps hold exactly the entries buildNode gave
\* them
MergeKeepsNodeMaps == [][pc = "merge" => NodeMapsStay]_vars

\* the same as a property of the states: once saved, a Node's maps are what
\* buildNode makes of its partial, before, during and after the merge
NodeMapsAsBuilt ==
    \A path \in DOMAIN PathToNode :
        PathToNode[path] # Nil =>
            heap[NodeMaps(path)] = buildNode(Background, path, PathToNode[path].Partial).maps

\* two files were merged into one group-version without a diagnostic: the
\* merged node has maps of its own, which hold more than either file's
SecondSourceCopied ==
    /\ pc = "refs" /\ diags = EmptyBag
    /\ \E gv \in DOMAIN GVToNode :
         LET merged == GVToNode[gv]
         IN /\ Len(merged.Sources) = 2
            /\ merged.Sources[1] # merged.Sources[2]
            /\ merged.maps = MergedMaps(gv)
            /\ \A i \in 1..2 :
                 /\ DOMAIN heap[NodeMaps(merged.Sources[i])].Terminals # {}
                 /\ DOMAIN heap[NodeMaps(merged.Sources[i])].Terminals
                        # DOMAIN heap[merged.maps].Terminals
                 /\ DOMAIN heap[NodeMaps(merged.Sources[i])].Terminals
                        \subseteq DOMAIN heap[merged.maps].Terminals

\* a group-version was merged from three blocks: the third was added to the
\* merged node's own maps
ThirdSourceAdded ==
    /\ MergeOver
    /\ \E gv \in DOMAIN GVToNode :
         /\ Len(GVToNode[gv].Sources) = 3
         /\ GVToNode[gv].maps = MergedMaps(gv)


(***************************************************************************)
(* MergeNodes and the names declared once.                                 *)
(***************************************************************************)
\* the declarations of the graph: <<path, block, position>> of every kind and
\* subtype of every group-version block of every saved Node
DeclarationsOf(path) ==
    LET gvs == PathToNode[path].Partial.GroupVersions
    IN UNION {{<<path, i, j>> : j \in {k \in 1..Len(DeclsOfGV(gvs[i])) : DeclsOfGV(gvs[i])[k] # Nil}} :
                 i \in 1..Len(gvs)}

Declarations ==
    UNION {DeclarationsOf(path) : path \in {p \in DOMAIN PathToNode : PathToNode[p] # Nil}}

\* the group-version and fully qualified name that a declaration declares
NameDeclared(d) == DeclsOfGV(PathToNode[d[1]].Partial.GroupVersions[d[2]])[d[3]].from

\* two distinct declarations share group-version and fully qualified name
DeclaredTwice ==
    LET all == Declarations
    IN \E d, e \in all : d # e /\ NameDeclared(d) = NameDeclared(e)

\* an iteration of MergeNodes records "type with this name already exists"
MergeReportsDuplicate ==
    pc = "merge" /\ BagCount(diags', AlreadyExists) > BagCount(diags, AlreadyExists)

\* C29: MergeNodes records "type with this name already exists" only when two
\* distinct declarations share group-version and fully qualified name; a file
\* of several group-version blocks that declares every name once gets none
DuplicateOnlyIfDeclaredTwice == [][MergeReportsDuplicate => DeclaredTwice]_vars

\* the blocks of the partial of a saved Node are of pairwise different
\* group-versions
BlocksApart(path) ==
    LET gvs == PathToNode[path].Partial.GroupVersions
    IN \A i, j \in 1..Len(gvs) : i # j => gvs[i].Description # gvs[j].Description

\* where no file has two blocks of one group-version, the duplicate is
\* recorded only for a name declared twice
DuplicateOnlyIfDeclaredTwiceApart ==
    [][(MergeReportsDuplicate
        /\ \A path \in DOMAIN PathToNode : PathToNode[path] # Nil => BlocksApart(path))
       => DeclaredTwice]_vars

\* a.kdl alone, with core/v1 { struct A } and core/v1 { struct B }: every
\* name is declared once and MergeNodes has recorded duplicates
OnceDeclaredReported ==
    /\ MergeOver
    /\ world.roots = <<"a.kdl">>
    /\ DOMAIN PathToNode = {"a.kdl"} /\ PathToNode["a.kdl"] # Nil
    /\ Len(PathToNode["a.kdl"].Partial.GroupVersions) = 2
    /\ ~BlocksApart("a.kdl")
    /\ ~DeclaredTwice
    /\ GVToNode[CoreV1].Sources = <<"a.kdl", "a.kdl">>
    /\ BagCount(diags, AlreadyExists) = 2

\* a file with blocks of two different group-versions was merged and nothing
\* was recorded
BlocksApartMerged ==
    /\ MergeOver /\ diags = EmptyBag
    /\ \E path \in DOMAIN PathToNode :
         /\ PathToNode[path] # Nil
         /\ Len(PathToNode[path].Partial.GroupVersions) = 2
         /\ BlocksApart(path)


(***************************************************************************)
(* The placeholder of avoidCycle.                                          *)
(***************************************************************************)
\* the paths that are mapped to the nil placeholder
Placeholders == {path \in DOMAIN PathToNode : PathToNode[path] = Nil}

\* the paths of the AddFile calls in progress
InProgress == {stack[i].path : i \in 1..Len(stack)}

\* saveNode finds a node where AddFile's placeholder was: it panics with
\* "invalid: duplicate typecheck graph node"
DuplicateNodePanic ==
    /\ pc = "roots" /\ stack # <<>>
    /\ LET f == stack[Len(stack)]
       IN /\ f.next > Len(f.partial.Dependencies)
          /\ f.path \in DOMAIN PathToNode /\ PathToNode[f.path] # Nil

\* C30: while the program runs, the paths mapped to the nil placeholder are
\* exactly the paths of the AddFile calls in progress. So when a top-level
\* AddFile has returned no placeholder is left, saveNode always finds the
\* placeholder of its own AddFile and never panics, and MergeNodes,
\* PartialFor and BundleFor find a Node at every path
PlaceholdersAreInProgress ==
    /\ pc # "panic" => Placeholders = InProgress
    /\ ~DuplicateNodePanic
    /\ pc \in {"merge", "refs", "fields", "subtypes", "return", "done", "hang"} => Placeholders = {}

\* a diamond whose far end depends back on the root was loaded: the cycle was
\* reported, every file of the diamond has its Node and MergeNodes has run
DiamondWithCycleSaved ==
    /\ MergeOver
    /\ world.roots = <<"a.ckdl", "d.ckdl">>
    /\ DOMAIN PathToNode = {"a.ckdl", "b.ckdl", "c.ckdl", "d.ckdl"}
    /\ PathToNode["d.ckdl"] # Nil
    /\ PathToNode["d.ckdl"].Partial.Dependencies # <<>>
    /\ PathToNode["d.ckdl"].Partial.Dependencies[1].From = "a.ckdl"
    /\ BagCount(diags, ImportCycle) = 1
    /\ Placeholders = {}

\* inside the diamond: three AddFile calls deep, each path a placeholder
ThreeInProgress ==
    /\ pc = "roots" /\ Len(stack) = 3
    /\ InProgress = {"a.ckdl", "c.ckdl", "d.ckdl"}
    /\ Placeholders = InProgress
    /\ PathToNode["b.ckdl"] # Nil

=============================================================================
